---- MODULE Spec2Model ----
(***************************************************************************)
(* Model of the downloader bot's job-execution and result-caching core:    *)
(*   - app/cache.py      TTLCache (the ephemeral key-value store)           *)
(*   - app/bot.py        the limiter _download_sem and the handlers' blocks *)
(*   - app/yt_helper.py  download, find_cached_file, find_cached_audio_file, *)
(*                       probe                                             *)
(*   - app/audio_tools.py  the four transcode recipes and _run             *)
(*                                                                         *)
(* The module holds several specifications over one set of variables; a    *)
(* specification leaves the variables of the other parts unchanged.        *)
(*   CacheSpec        TTLCache, one caller (each method is one step)       *)
(*   CacheThreadSpec  TTLCache, several threads (timestamp / lock / body)  *)
(*   Spec             the handlers of bot.py around the limiter             *)
(*   FairSpec         Spec, with every admitted job finishing and every     *)
(*                    woken handler resumed by the event loop               *)
(*   DownloadSpec     download, download_audio and the cache lookups over    *)
(*                    the download directory                                *)
(*   SiteSpec         Spec, with one handler ranging over every call site  *)
(*   AudioSpec        the transcode recipes, the engine's exit and the      *)
(*                    calling handler's reaction                            *)
(*   ProbeSpec        probe over the variant lists of the collaborator      *)
(*   ResumeSpec       one handler resuming an interaction from the store    *)
(*   FetchSpec        on_download / on_audio, the limiter and the download   *)
(*                    directory                                             *)
(*   StageSpec        the transcoding handlers, the limiter and the files    *)
(*                    under audio_tmp                                       *)
(*   DispatchSpec     the dispatcher and the message handlers, one message   *)
(*                    at a time, with the store and the passing of time     *)
(*   PendingSpec      the handlers that set and take up the pending states,  *)
(*                    several messages in flight around the limiter         *)
(***************************************************************************)
EXTENDS Integers, Sequences, FiniteSets, TLC

(* ------------------------------ bounds --------------------------------- *)
\* the clock runs over 0..MaxClock
MaxClock == 2
\* ttl arguments of set, and the cache's default ttl, range over 0..MaxTtl
MaxTtl == 1
\* number of threads calling the TTLCache concurrently
NumThreads == 2
\* number of front-end handlers in flight at once (M), more than the slots
NumHandlers == 3
\* the download directory holds at most MaxFiles files
MaxFiles == 2
\* the collaborator returns at most MaxFormats variants for a probed url
MaxFormats == 2
\* number of requests in flight at once where the files they read and write
\* are followed (at most NumHandlers)
NumRequests == 2

VARIABLES
    clock,      \* time.time()
    default_ttl,\* TTLCache._ttl
    data,       \* TTLCache._data : key -> <<value, expire>>
    ref,        \* a second TTLCache given the same set/get calls but no cleanup
    lastSet,    \* history: key -> the <<value, expire>> of the latest set(key)
    lastOp,     \* history: the latest completed TTLCache call and its result
    lock,       \* TTLCache._lock : 0 when free, else the thread holding it
    tpc,        \* per thread: position inside a TTLCache method
    tcall,      \* per thread: the call in progress (with its sampled time)
    max_concurrent_downloads, \* settings.max_concurrent_downloads
    sem_value,  \* _download_sem._value
    sem_waiters,\* _download_sem._waiters : the suspended handlers, oldest first
    sem_woken,  \* the waiters whose future has its result set (not yet resumed)
    hpc,        \* per handler: position in the handler's code
    hkind,      \* per handler: which handler of bot.py it runs
    hslot,      \* history, per handler: what it has done with the limiter so far
    files,      \* the names of the files in settings.download_dir
    dl,         \* the download / download_audio call in progress
    lastFind,   \* history: the latest find_cached_file / find_cached_audio_file
    au,         \* the audio_tools call in progress and what its handler did with it
    pr,         \* the probe call: the variants returned and the options built
    hloc,       \* per handler: the local variables of the handler's coroutine
    tmpfs       \* history: the files under audio_tmp last written by a request
                \* in flight, path -> the handler serving that request

cacheVars == <<clock, default_ttl, data, ref, lastSet, lastOp>>
threadVars == <<lock, tpc, tcall>>
semVars == <<max_concurrent_downloads, sem_value, sem_waiters, sem_woken>>
handlerVars == <<hpc, hkind, hslot>>
dlVars == <<files, dl, lastFind>>
toolVars == <<au, pr>>
jobVars == <<hloc, tmpfs>>
vars == <<clock, default_ttl, data, ref, lastSet, lastOp, lock, tpc, tcall,
          max_concurrent_downloads, sem_value, sem_waiters, sem_woken, hpc, hkind,
          hslot, files, dl, lastFind, au, pr, hloc, tmpfs>>

(* ------------------------ app/cache.py: TTLCache ------------------------ *)
Keys == {"k1", "k2"}
\* Python's None, as a stored value and as the result of get
None == "None"
Values == {"v1", "v2", None}
\* Optional[float] ttl argument: <<>> is None, <<n>> is the number n
TtlArgs == {<<>>} \cup {<<n>> : n \in 0..MaxTtl}
Threads == 1..NumThreads

\* an empty dict
EmptyDict == [k \in {} |-> <<None, 0>>]

\* cache.py:15  expire = time.time() + (ttl if ttl is not None else self._ttl)
ExpireAt(now, ttl, dflt) == now + (IF ttl # <<>> THEN ttl[1] ELSE dflt)

\* cache.py:17  self._data[key] = (value, expire)
DictSetKeepLater(d, key, value, expire) ==
    [k \in DOMAIN d \cup {key} |->
        IF k = key
        THEN <<value, IF key \in DOMAIN d /\ d[key][2] > expire THEN d[key][2]
                      ELSE expire>>
        ELSE d[k]]

DictSet(d, key, value, expire) ==
    [k \in DOMAIN d \cup {key} |-> IF k = key THEN <<value, expire>> ELSE d[k]]

\* del self._data[key]
DictDel(d, key) == [k \in DOMAIN d \ {key} |-> d[k]]

\* cache.py:26  the test get applies to a found item
IsExpired(expire, now) == expire < now

\* cache.py:22-29  the value get returns, given the timestamp it sampled
GetValue(d, key, now) ==
    IF key \notin DOMAIN d THEN None
    ELSE IF IsExpired(d[key][2], now) THEN None
    ELSE d[key][1]

\* cache.py:22-29  the dict get leaves behind (lazy eviction)
GetDict(d, key, now) ==
    IF key \in DOMAIN d /\ IsExpired(d[key][2], now) THEN DictDel(d, key) ELSE d

\* cache.py:34  to_delete = [k for k, (_, exp) in self._data.items() if exp < now]
ToDeleteInclusive(d, now) == {k \in DOMAIN d : d[k][2] <= now}

ToDelete(d, now) == {k \in DOMAIN d : d[k][2] < now}

\* cache.py:34-36  the dict cleanup leaves behind
CleanupDict(d, now) == [k \in DOMAIN d \ ToDelete(d, now) |-> d[k]]

\* a record of one TTLCache call: the arguments, the timestamp the method sampled
\* (now), the time at which its body ran under the lock (at), the result (value;
\* refvalue is the result on ref), and the entry it met (found, old, reffound)
NoOp == [op |-> "none", key |-> "k1", value |-> None, ttl |-> <<>>,
         refvalue |-> None, now |-> 0, at |-> 0, expire |-> 0,
         found |-> FALSE, reffound |-> FALSE, old |-> <<None, 0>>]

CacheInit ==
    /\ clock = 0
    /\ default_ttl = MaxTtl
    /\ data = EmptyDict
    /\ ref = EmptyDict
    /\ lastSet = EmptyDict
    /\ lastOp = NoOp

ThreadInit ==
    /\ lock = 0
    /\ tpc = [t \in Threads |-> "idle"]
    /\ tcall = [t \in Threads |-> NoOp]

\* time passes
Tick ==
    /\ clock < MaxClock
    /\ clock' = clock + 1
    /\ UNCHANGED <<default_ttl, data, ref, lastSet, lastOp>>

\* the entry of key in d, or a placeholder when there is none
EntryOf(d, key) == IF key \in DOMAIN d THEN d[key] ELSE <<None, 0>>

\* cache.py:14-17  TTLCache.set, as one step of a single caller
CacheSet(key, value, ttl) ==
    LET expire == ExpireAt(clock, ttl, default_ttl) IN
    /\ data' = DictSet(data, key, value, expire)
    /\ ref' = DictSet(ref, key, value, expire)
    /\ lastSet' = DictSet(lastSet, key, value, expire)
    /\ lastOp' = [op |-> "set", key |-> key, value |-> value, ttl |-> ttl,
                  refvalue |-> value, now |-> clock, at |-> clock,
                  expire |-> expire, found |-> key \in DOMAIN data,
                  reffound |-> key \in DOMAIN ref, old |-> EntryOf(data, key)]
    /\ UNCHANGED <<clock, default_ttl>>

\* cache.py:19-29  TTLCache.get, as one step of a single caller
CacheGet(key) ==
    /\ data' = GetDict(data, key, clock)
    /\ ref' = GetDict(ref, key, clock)
    /\ lastOp' = [op |-> "get", key |-> key,
                  value |-> GetValue(data, key, clock), ttl |-> <<>>,
                  refvalue |-> GetValue(ref, key, clock),
                  now |-> clock, at |-> clock,
                  expire |-> EntryOf(data, key)[2],
                  found |-> key \in DOMAIN data,
                  reffound |-> key \in DOMAIN ref, old |-> EntryOf(data, key)]
    /\ UNCHANGED <<clock, default_ttl, lastSet>>

\* cache.py:31-36  TTLCache.cleanup, as one step of a single caller
CacheCleanup ==
    /\ data' = CleanupDict(data, clock)
    /\ lastOp' = [NoOp EXCEPT !.op = "cleanup", !.now = clock, !.at = clock,
                              !.found = ToDelete(data, clock) # {}]
    /\ UNCHANGED <<clock, default_ttl, ref, lastSet>>

(* ------------- app/cache.py: TTLCache called from several threads -------- *)
\* The keys and values the threads use (one key: the claims about threads are
\* about calls that meet on the same key)
ThreadKeys == {"k1"}
ThreadValues == {"v1"}

\* cache.py:15, 20, 32: the method samples time.time() BEFORE it takes the lock
TCallSet(t, key, value, ttl) ==
    /\ tpc[t] = "idle"
    /\ tcall' = [tcall EXCEPT ![t] =
                   [NoOp EXCEPT !.op = "set", !.key = key, !.value = value,
                                !.ttl = ttl, !.now = clock,
                                !.expire = ExpireAt(clock, ttl, default_ttl)]]
    /\ tpc' = [tpc EXCEPT ![t] = "wait"]
    /\ UNCHANGED <<lock, cacheVars>>

TCallGet(t, key) ==
    /\ tpc[t] = "idle"
    /\ tcall' = [tcall EXCEPT ![t] =
                   [NoOp EXCEPT !.op = "get", !.key = key, !.now = clock]]
    /\ tpc' = [tpc EXCEPT ![t] = "wait"]
    /\ UNCHANGED <<lock, cacheVars>>

TCallCleanup(t) ==
    /\ tpc[t] = "idle"
    /\ tcall' = [tcall EXCEPT ![t] = [NoOp EXCEPT !.op = "cleanup", !.now = clock]]
    /\ tpc' = [tpc EXCEPT ![t] = "wait"]
    /\ UNCHANGED <<lock, cacheVars>>

\* cache.py:16, 21, 33  with self._lock: (entry)
TAcquire(t) ==
    /\ tpc[t] = "wait"
    /\ lock = 0
    /\ lock' = t
    /\ tpc' = [tpc EXCEPT ![t] = "locked"]
    /\ UNCHANGED <<tcall, cacheVars>>

\* cache.py:17, 22-29, 34-36  the body, run with the timestamp sampled earlier
TBody(t) ==
    LET c == tcall[t] IN
    /\ tpc[t] = "locked"
    /\ tpc' = [tpc EXCEPT ![t] = "unlock"]
    /\ \/ /\ c.op = "set"
          /\ data' = DictSet(data, c.key, c.value, c.expire)
          /\ UNCHANGED lastOp
       \/ /\ c.op = "get"
          /\ data' = GetDict(data, c.key, c.now)
          /\ lastOp' = [c EXCEPT !.value = GetValue(data, c.key, c.now),
                                 !.at = clock,
                                 !.expire = EntryOf(data, c.key)[2],
                                 !.found = c.key \in DOMAIN data]
       \/ /\ c.op = "cleanup"
          /\ data' = CleanupDict(data, c.now)
          /\ UNCHANGED lastOp
    /\ UNCHANGED <<clock, default_ttl, ref, lastSet, lock, tcall>>

\* cache.py: leaving the with block releases the lock; the method returns
TRelease(t) ==
    /\ tpc[t] = "unlock"
    /\ lock' = 0
    /\ tpc' = [tpc EXCEPT ![t] = "idle"]
    /\ UNCHANGED <<tcall, cacheVars>>

(* --------------- app/bot.py: the limiter and the handlers --------------- *)
Handlers == 1..NumHandlers

\* The handlers of bot.py that run a job inside `async with _download_sem`.
\* on_download and on_audio look the artifact up first and then fetch.  The
\* transcoding handlers stage the uploaded file (_download_by_id) and then run a
\* recipe; their guarded blocks (bot.py:181-192, 297-308, 367-378, 420-431,
\* 474-485, 528-539, 564-575, 612-623) are statement for statement the same, and
\* on_effect_apply stands for them here.
FetchKinds == {"on_download", "on_audio"}
TranscodeKinds == {"on_effect_apply"}
Kinds == FetchKinds \cup TranscodeKinds

\* every place of bot.py where a handler runs a job: the eight transcoding
\* blocks (on_audio_message has two) and the two fetching blocks
TranscodeSites ==
    {"on_text", "on_effect_apply", "on_action", "on_trim", "on_voice",
     "on_audio_message_trim", "on_audio_message_voice", "on_video_message"}
Sites == FetchKinds \cup TranscodeSites

\* the expensive operations of yt_helper.py and audio_tools.py
JobOps ==
    {"download", "download_audio", "apply_effect", "extract_audio_mp3",
     "trim_audio_segment", "convert_to_voice"}

\* the operation a handler invokes at position "job"
\* (bot.py:184, 300, 370, 423, 477, 531, 567, 615, 706, 774)
JobOf(kind) ==
    CASE kind = "on_text" -> "trim_audio_segment"
      [] kind = "on_effect_apply" -> "apply_effect"
      [] kind = "on_action" -> "convert_to_voice"
      [] kind = "on_trim" -> "trim_audio_segment"
      [] kind = "on_voice" -> "convert_to_voice"
      [] kind = "on_audio_message_trim" -> "trim_audio_segment"
      [] kind = "on_audio_message_voice" -> "convert_to_voice"
      [] kind = "on_video_message" -> "extract_audio_mp3"
      [] kind = "on_download" -> "download"
      [] kind = "on_audio" -> "download_audio"
      [] OTHER -> "none"

\* positions inside the `async with _download_sem:` block
InBlock == {"staging", "job", "failing"}

\* where a handler of this kind stands after its preamble: on_download and
\* on_audio at the cache lookup (bot.py:690, 758), the others at the limiter
FirstStepNoGate(kind) == IF kind \in FetchKinds THEN "lookup" ELSE "staging"

FirstStep(kind) == IF kind \in FetchKinds THEN "lookup" ELSE "acquire"

\* the first statement of the guarded block of a handler of this kind
BlockEntryLookupInside(kind) == IF kind \in FetchKinds THEN "lookup" ELSE "staging"

BlockEntry(kind) == IF kind \in FetchKinds THEN "job" ELSE "staging"

\* the handlers executing inside a guarded block
Inside == {h \in Handlers : hpc[h] \in InBlock}

\* the handlers holding a slot: inside a block, or suspended in acquire() with the
\* slot already handed to them by release()
Holders == Inside \cup sem_woken

\* config.py:20  the default of settings.max_concurrent_downloads
DefaultMaxConcurrentDownloads == 2

\* settings.max_concurrent_downloads is read from the environment: any N from 1
\* up to the default; bot.py:35 builds the semaphore from it
SemInit ==
    /\ max_concurrent_downloads \in 1..DefaultMaxConcurrentDownloads
    /\ sem_value = max_concurrent_downloads
    /\ sem_waiters = <<>>
    /\ sem_woken = {}

\* the limiter as built with the default setting
SemDefault == SemInit /\ max_concurrent_downloads = DefaultMaxConcurrentDownloads

HandlerInit ==
    /\ hpc = [h \in Handlers |-> "idle"]
    /\ hkind = [h \in Handlers |-> "none"]
    /\ hslot = [h \in Handlers |-> "none"]

\* asyncio.Semaphore.locked(): no free slot, or somebody is already waiting
SemLockedNoValueCheck(value, waiters) == waiters # <<>>

SemLocked(value, waiters) == value = 0 \/ waiters # <<>>

\* the waiters, oldest first, whose future is not done yet
Pending(waiters, woken) == SelectSeq(waiters, LAMBDA w : w \notin woken)

\* asyncio.Semaphore._wake_up_next(): the first waiter whose future is not done
\* takes the slot (value - 1) and has its future's result set
NextToWakeLast(waiters, woken) ==
    LET p == Pending(waiters, woken) IN p[Len(p)]

NextToWake(waiters, woken) == Head(Pending(waiters, woken))

\* `while self._value > 0: if not self._wake_up_next(): break`, as the set of
\* handlers woken in the end (each wake-up takes one unit of value)
RECURSIVE WakeLoop(_, _, _)
WakeLoop(value, waiters, woken) ==
    IF value > 0 /\ Pending(waiters, woken) # <<>>
    THEN WakeLoop(value - 1, waiters, woken \cup {NextToWake(waiters, woken)})
    ELSE [value |-> value, woken |-> woken]

\* asyncio.Semaphore.release(): value += 1, then _wake_up_next()
SemRelease ==
    LET r == WakeLoop(1, sem_waiters, sem_woken) IN
    /\ sem_value' = sem_value + r.value
    /\ sem_woken' = r.woken
    /\ UNCHANGED <<max_concurrent_downloads, sem_waiters>>

\* an update arrives and the dispatcher starts a handler for it; the handler
\* runs up to its first await before the lookup / the guarded block
Start(h, kind) ==
    /\ hpc[h] = "idle"
    /\ hkind' = [hkind EXCEPT ![h] = kind]
    /\ hpc' = [hpc EXCEPT ![h] = FirstStep(kind)]
    /\ hslot' = [hslot EXCEPT ![h] = "none"]
    /\ UNCHANGED semVars

\* bot.py:690-703, 758-771  the cached artifact is found and delivered: the
\* handler returns (position "sent_cached") without entering the guarded block
LookupHit(h) ==
    /\ hpc[h] = "lookup"
    /\ hpc' = [hpc EXCEPT ![h] = "sent_cached"]
    /\ UNCHANGED <<hkind, hslot, semVars>>

\* bot.py:690-704, 758-772  no cached artifact, or sending it failed: fall
\* through to the guarded block
LookupMiss(h) ==
    /\ hpc[h] = "lookup"
    /\ hpc' = [hpc EXCEPT ![h] = "acquire"]
    /\ UNCHANGED <<hkind, hslot, semVars>>

\* `async with _download_sem:` entry, asyncio.Semaphore.acquire(): take a slot
\* at once when not locked(), else join the waiters and suspend
Acquire(h) ==
    /\ hpc[h] = "acquire"
    /\ IF ~SemLocked(sem_value, sem_waiters)
       THEN /\ sem_value' = sem_value - 1
            /\ hpc' = [hpc EXCEPT ![h] = BlockEntry(hkind[h])]
            /\ hslot' = [hslot EXCEPT ![h] = "held"]
            /\ UNCHANGED sem_waiters
       ELSE /\ sem_waiters' = Append(sem_waiters, h)
            /\ hpc' = [hpc EXCEPT ![h] = "waiting"]
            /\ hslot' = [hslot EXCEPT ![h] = "waiting"]
            /\ UNCHANGED sem_value
    /\ UNCHANGED <<max_concurrent_downloads, sem_woken, hkind>>

\* the suspended handler the event loop resumes next: wake-ups are scheduled
\* when the future is set and run first-in-first-out, and futures are set in
\* the order of the waiters
FirstWoken(waiters, woken) == Head(SelectSeq(waiters, LAMBDA w : w \in woken))

\* acquire() resumes once release() has set the waiter's future: the waiter
\* leaves the queue, passes spare slots on, and the handler enters its block
Resume(h) ==
    /\ hpc[h] = "waiting"
    /\ h \in sem_woken
    /\ h = FirstWoken(sem_waiters, sem_woken)
    /\ LET ws == SelectSeq(sem_waiters, LAMBDA w : w # h)
           r == WakeLoop(sem_value, ws, sem_woken \ {h})
       IN /\ sem_waiters' = ws
          /\ sem_value' = r.value
          /\ sem_woken' = r.woken
    /\ hpc' = [hpc EXCEPT ![h] = BlockEntry(hkind[h])]
    /\ hslot' = [hslot EXCEPT ![h] = "held"]
    /\ UNCHANGED <<max_concurrent_downloads, hkind>>

\* bot.py:183, 299, 369, 422, 476, 530, 566, 614  await _download_by_id(...)
StagingOk(h) ==
    /\ hpc[h] = "staging"
    /\ hpc' = [hpc EXCEPT ![h] = "job"]
    /\ UNCHANGED <<hkind, hslot, semVars>>

\* the staging fetch raises: control goes to the except clause inside the block
StagingFail(h) ==
    /\ hpc[h] = "staging"
    /\ hpc' = [hpc EXCEPT ![h] = "failing"]
    /\ UNCHANGED <<hkind, hslot, semVars>>

\* the download / transcode returns: the block ends normally (__aexit__ releases)
\* and the handler goes on to deliver the artifact
JobOk(h) ==
    /\ hpc[h] = "job"
    /\ SemRelease
    /\ hpc' = [hpc EXCEPT ![h] = "deliver"]
    /\ hslot' = [hslot EXCEPT ![h] = "released"]
    /\ UNCHANGED hkind

\* the download / transcode raises (or the file is missing afterwards)
JobFail(h) ==
    /\ hpc[h] = "job"
    /\ hpc' = [hpc EXCEPT ![h] = "failing"]
    /\ UNCHANGED <<hkind, hslot, semVars>>

\* the except clause inside the block: the progress message is deleted, the
\* failure reported, and `return` leaves the block (__aexit__ releases); the
\* same holds when reporting itself raises and the exception leaves the block
FailReturnNoRelease(h) ==
    /\ hpc[h] = "failing"
    /\ hpc' = [hpc EXCEPT ![h] = "failed"]
    /\ hslot' = [hslot EXCEPT ![h] = "released"]
    /\ UNCHANGED <<hkind, semVars>>

FailReturn(h) ==
    /\ hpc[h] = "failing"
    /\ SemRelease
    /\ hpc' = [hpc EXCEPT ![h] = "failed"]
    /\ hslot' = [hslot EXCEPT ![h] = "released"]
    /\ UNCHANGED hkind

\* the handler has returned, after a failure or after sending the cached
\* artifact; the dispatcher closes the update
Finish(h) ==
    /\ hpc[h] \in {"failed", "sent_cached"}
    /\ hpc' = [hpc EXCEPT ![h] = "idle"]
    /\ hkind' = [hkind EXCEPT ![h] = "none"]
    /\ hslot' = [hslot EXCEPT ![h] = "none"]
    /\ UNCHANGED semVars

\* after the block: the artifact is sent (or sending fails and is reported)
Deliver(h) ==
    /\ hpc[h] = "deliver"
    /\ hpc' = [hpc EXCEPT ![h] = "idle"]
    /\ hkind' = [hkind EXCEPT ![h] = "none"]
    /\ hslot' = [hslot EXCEPT ![h] = "none"]
    /\ UNCHANGED semVars

\* the steps of handler h inside its guarded block
BlockStep(h) ==
    StagingOk(h) \/ StagingFail(h) \/ JobOk(h) \/ JobFail(h) \/ FailReturn(h)

(* ---------- app/yt_helper.py: download and the cache lookups ------------ *)
\* Strings are sequences of one-character strings, so that building a file
\* name, matching it against a glob pattern and sorting are computed.

\* content ids as the extractors of the supported sites produce them (letters,
\* digits, "_" and "-"); the second id begins like a file name of the first
Ids == {<<"a">>, <<"a", "_", "h", "1">>}
\* vertical resolutions; the decimal form of one is a prefix of the other's
Heights == {1, 12}
VideoExts == {<<"m", "p", "4">>, <<"w", "e", "b", "m">>}
AudioExts == {<<"m", "p", "3">>, <<"m", "4", "a">>}
\* what an extraction attempt can fail with
Errors == {"HTTP Error 403: Forbidden", "network error"}
\* a source url: the content id the collaborator reports for it
Urls == Ids

\* Python's None as a path
NoPath == <<>>

\* the code point of a character
Ord(c) ==
    CASE c = "-" -> 45 [] c = "." -> 46 [] c = "0" -> 48 [] c = "1" -> 49
      [] c = "2" -> 50 [] c = "3" -> 51 [] c = "4" -> 52 [] c = "5" -> 53
      [] c = "6" -> 54 [] c = "7" -> 55 [] c = "8" -> 56 [] c = "9" -> 57
      [] c = "_" -> 95 [] c = "a" -> 97 [] c = "b" -> 98 [] c = "d" -> 100
      [] c = "e" -> 101 [] c = "h" -> 104 [] c = "i" -> 105 [] c = "m" -> 109
      [] c = "o" -> 111 [] c = "p" -> 112 [] c = "u" -> 117 [] c = "w" -> 119

\* str < str in Python: by code points, a proper prefix first
RECURSIVE StrLess(_, _)
StrLess(a, b) ==
    IF b = <<>> THEN FALSE
    ELSE IF a = <<>> THEN TRUE
    ELSE IF Head(a) = Head(b) THEN StrLess(Tail(a), Tail(b))
    ELSE Ord(Head(a)) < Ord(Head(b))

\* sorted(matches)[-1]
LastSorted(names) ==
    CHOOSE m \in names : \A x \in names : x = m \/ StrLess(x, m)

DigitChar(d) ==
    CASE d = 0 -> "0" [] d = 1 -> "1" [] d = 2 -> "2" [] d = 3 -> "3" [] d = 4 -> "4"
      [] d = 5 -> "5" [] d = 6 -> "6" [] d = 7 -> "7" [] d = 8 -> "8" [] d = 9 -> "9"

\* str(n) / %(height)s of a non-negative int
RECURSIVE Dec(_)
Dec(n) == IF n < 10 THEN <<DigitChar(n)>> ELSE Dec(n \div 10) \o <<DigitChar(n % 10)>>

\* fnmatch: "*" matches any run of characters, "?" any one character, any
\* other pattern character itself
RECURSIVE FnMatch(_, _)
FnMatch(name, pat) ==
    IF pat = <<>> THEN name = <<>>
    ELSE IF Head(pat) = "*"
         THEN FnMatch(name, Tail(pat)) \/ (name # <<>> /\ FnMatch(Tail(name), pat))
    ELSE IF Head(pat) = "?" THEN name # <<>> /\ FnMatch(Tail(name), Tail(pat))
    ELSE name # <<>> /\ Head(name) = Head(pat) /\ FnMatch(Tail(name), Tail(pat))

\* glob.glob(os.path.join(download_dir, pattern)): the files of the directory
\* whose name matches
Glob(dir, pat) == {f \in dir : FnMatch(f, pat)}

\* yt_helper.py:104  f"{video_id}_h{height}.*"
VideoPatternNoDot(video_id, height) == video_id \o <<"_", "h">> \o Dec(height) \o <<"*">>

VideoPattern(video_id, height) ==
    video_id \o <<"_", "h">> \o Dec(height) \o <<".", "*">>

\* yt_helper.py:148  f"{video_id}_audio.*"
AudioPattern(video_id) == video_id \o <<"_", "a", "u", "d", "i", "o", ".", "*">>

\* yt_helper.py:103-106  find_cached_file
find_cached_file(dir, video_id, height) ==
    LET matches == Glob(dir, VideoPattern(video_id, height)) IN
    IF matches # {} THEN LastSorted(matches) ELSE NoPath

\* yt_helper.py:147-150  find_cached_audio_file
find_cached_audio_file(dir, video_id) ==
    LET matches == Glob(dir, AudioPattern(video_id)) IN
    IF matches # {} THEN LastSorted(matches) ELSE NoPath

\* yt_helper.py:55  outtmpl "%(id)s_h%(height)s.%(ext)s": the name the collaborator
\* writes, from the id, the height of the format it fetched and its container
VideoName(id, height, ext) == id \o <<"_", "h">> \o Dec(height) \o <<".">> \o ext

\* yt_helper.py:157  outtmpl "%(id)s_audio.%(ext)s"
AudioNameNoMarker(id, ext) == id \o <<".">> \o ext

AudioName(id, ext) == id \o <<"_", "a", "u", "d", "i", "o", ".">> \o ext

\* yt_helper.py:111  the primary selector  bv*[height=H]+ba/b[height=H]
ExactSelector(height) == [op |-> "=", height |-> height, orbest |-> FALSE]

\* yt_helper.py:133  the fallback selector  bv*[height<=H]+ba/b[height<=H]/best
RelaxedSelector(height) == [op |-> "<=", height |-> height, orbest |-> TRUE]

Max(S) == CHOOSE m \in S : \A x \in S : x <= m

\* The collaborator's choice for a selector among the heights it is offered:
\* the set holding the height of the format fetched, or {} when nothing fits
Selected(sel, avail) ==
    LET fit == {a \in avail : IF sel.op = "=" THEN a = sel.height ELSE a <= sel.height}
    IN IF fit # {} THEN {Max(fit)}
       ELSE IF sel.orbest /\ avail # {} THEN {Max(avail)}
       ELSE {}

\* yt_helper.py:130-142  except Exception as e: both branches of the test for
\* "403" / "Forbidden" run the fallback
Is403(err) == err = "HTTP Error 403: Forbidden"

FallbackOnlyOn403(err) == Is403(err)

FallbackAfter(err) == IF Is403(err) THEN TRUE ELSE TRUE

NoCall == [pc |-> "idle", fn |-> "none", id |-> <<>>, height |-> 0,
           attempts |-> <<>>, filepath |-> NoPath]

NoFind == [fn |-> "none", id |-> <<>>, height |-> 0, result |-> NoPath]

DlInit ==
    /\ files = {}
    /\ dl = NoCall
    /\ lastFind = NoFind

\* one invocation of the extraction collaborator (_dl_try): it raises err, or
\* it is offered the heights avail, fetches what the selector picks and writes
\* the file.  Returns the record of the attempt.
Attempt(sel, avail, ext, err) ==
    LET got == Selected(sel, avail) IN
    IF err # "" THEN [selector |-> sel, ok |-> FALSE, err |-> err, height |-> 0]
    ELSE IF got = {}
         THEN [selector |-> sel, ok |-> FALSE,
               err |-> "Requested format is not available", height |-> 0]
    ELSE [selector |-> sel, ok |-> TRUE, err |-> "", height |-> Max(got)]

\* yt_helper.py:109-111  download(url, height, ...) is called
DownloadCall(url, height) ==
    /\ dl.pc = "idle"
    /\ dl' = [NoCall EXCEPT !.pc = "primary", !.fn = "download", !.id = url,
                            !.height = height]
    /\ lastFind' = NoFind
    /\ UNCHANGED files

\* yt_helper.py:127-129  try: return _dl_try(base)
DownloadPrimary(avail, ext, err) ==
    LET a == Attempt(ExactSelector(dl.height), avail, ext, err)
        name == VideoName(dl.id, a.height, ext)
    IN
    /\ dl.pc = "primary"
    /\ IF a.ok
       THEN /\ Cardinality(files \cup {name}) <= MaxFiles
            /\ files' = files \cup {name}
            /\ dl' = [dl EXCEPT !.pc = "returned", !.attempts = Append(@, a),
                                !.filepath = name]
       ELSE /\ files' = files
            /\ dl' = [dl EXCEPT !.pc = IF FallbackAfter(a.err) THEN "fallback"
                                       ELSE "raised",
                                !.attempts = Append(@, a)]
    /\ UNCHANGED lastFind

\* yt_helper.py:130-142  the fallback: relaxed selector, more player clients
DownloadFallback(avail, ext, err) ==
    LET a == Attempt(RelaxedSelector(dl.height), avail, ext, err)
        name == VideoName(dl.id, a.height, ext)
    IN
    /\ dl.pc = "fallback"
    /\ IF a.ok
       THEN /\ Cardinality(files \cup {name}) <= MaxFiles
            /\ files' = files \cup {name}
            /\ dl' = [dl EXCEPT !.pc = "returned", !.attempts = Append(@, a),
                                !.filepath = name]
       ELSE /\ files' = files
            /\ dl' = [dl EXCEPT !.pc = "raised", !.attempts = Append(@, a)]
    /\ UNCHANGED lastFind

\* yt_helper.py:153-184  download_audio: one invocation; the audio is written as
\* {id}_audio.{ext} and the path is looked up among the files of that name
DownloadAudio(url, ext, err) ==
    LET name == AudioName(url, ext) IN
    /\ dl.pc = "idle"
    /\ lastFind' = NoFind
    /\ IF err = ""
       THEN /\ Cardinality(files \cup {name}) <= MaxFiles
            /\ files' = files \cup {name}
            /\ dl' = [NoCall EXCEPT
                        !.pc = "returned", !.fn = "download_audio", !.id = url,
                        !.attempts = <<[selector |-> [op |-> "bestaudio", height |-> 0,
                                                     orbest |-> TRUE],
                                        ok |-> TRUE, err |-> "", height |-> 0]>>,
                        !.filepath = find_cached_audio_file(files \cup {name}, url)]
       ELSE /\ files' = files
            /\ dl' = [NoCall EXCEPT
                        !.pc = "raised", !.fn = "download_audio", !.id = url,
                        !.attempts = <<[selector |-> [op |-> "bestaudio", height |-> 0,
                                                     orbest |-> TRUE],
                                        ok |-> FALSE, err |-> err, height |-> 0]>>]

\* the caller has taken the result (or the exception) of the call
DownloadEnd ==
    /\ dl.pc \in {"returned", "raised"}
    /\ dl' = NoCall
    /\ UNCHANGED <<files, lastFind>>

\* bot.py:690  the caller looks a video up (this specification follows one
\* caller: it looks up between its calls of download)
FindCachedFile(video_id, height) ==
    /\ dl.pc = "idle"
    /\ lastFind' = [fn |-> "find_cached_file", id |-> video_id, height |-> height,
                    result |-> find_cached_file(files, video_id, height)]
    /\ UNCHANGED <<files, dl>>

\* bot.py:758  the caller looks an audio file up
FindCachedAudioFile(video_id) ==
    /\ dl.pc = "idle"
    /\ lastFind' = [fn |-> "find_cached_audio_file", id |-> video_id, height |-> 0,
                    result |-> find_cached_audio_file(files, video_id)]
    /\ UNCHANGED <<files, dl>>

(* --------------- app/audio_tools.py: the transcode recipes -------------- *)
\* A str is a sequence of pieces: a timestamp is spelled character by character
\* (it is split and parsed), every other str is one piece.

\* Python's None as the start / end argument
NoTs == <<"None">>

\* the start / end values passed in: None, the empty str, timestamps of the
\* forms M:SS, SS and H:MM:SS, and strs that are no timestamp
Timestamps ==
    {NoTs, <<>>,
     <<"0", ":", "1", "0">>, <<"1", ":", "0", "0">>, <<"0", ":", "3", "0">>,
     <<"3", "0">>, <<"1", ":", "0", "0", ":", "0", "5">>,
     <<"x">>, <<"1", ":", "x">>, <<"1", ":", "2", ":", "3", ":", "4">>}

\* the effect names passed in
EffectNames == {"8d", "concert", "reverb", "slow", "eight_d", "echo", ""}

\* what subprocess.run can report: the exit status and the text on stderr
ExitCodes == {0, 1}
StderrTexts == {"", "Invalid data found when processing input"}

\* `if start:` / `if end:`  None and "" are false
Truthy(ts) == ts # NoTs /\ ts # <<>>

\* ts.split(":")
RECURSIVE Split(_)
Split(ts) ==
    IF ts = <<>> THEN << <<>> >>
    ELSE LET r == Split(Tail(ts)) IN
         IF Head(ts) = ":" THEN << <<>> >> \o r
         ELSE << <<Head(ts)>> \o Head(r) >> \o Tail(r)

Digits == {"0", "1", "2", "3", "4", "5", "6", "7", "8", "9"}

DigitVal(c) ==
    CASE c = "0" -> 0 [] c = "1" -> 1 [] c = "2" -> 2 [] c = "3" -> 3 [] c = "4" -> 4
      [] c = "5" -> 5 [] c = "6" -> 6 [] c = "7" -> 7 [] c = "8" -> 8 [] c = "9" -> 9

\* float(p) over digits, ":" and letters: a non-empty run of digits is a number,
\* anything else raises ValueError
FloatOk(p) == p # <<>> /\ \A i \in 1..Len(p) : p[i] \in Digits

RECURSIVE FloatVal(_)
FloatVal(p) ==
    IF p = <<>> THEN 0
    ELSE 10 * FloatVal(SubSeq(p, 1, Len(p) - 1)) + DigitVal(p[Len(p)])

\* `parts = [float(p) for p in parts]` does not raise
PartsOk(ts) == \A i \in 1..Len(Split(ts)) : FloatOk(Split(ts)[i])

\* _to_seconds with the hours read as minutes
ToSecondsHoursAsMinutes(ts) ==
    LET parts == Split(ts) IN
    IF Len(parts) = 3
    THEN FloatVal(parts[1]) * 60 + FloatVal(parts[2]) * 60 + FloatVal(parts[3])
    ELSE IF Len(parts) = 2
    THEN FloatVal(parts[1]) * 60 + FloatVal(parts[2])
    ELSE FloatVal(parts[1])

\* _to_seconds(ts), for PartsOk(ts)
to_seconds(ts) ==
    LET parts == Split(ts) IN
    IF Len(parts) = 3
    THEN FloatVal(parts[1]) * 3600 + FloatVal(parts[2]) * 60 + FloatVal(parts[3])
    ELSE IF Len(parts) = 2
    THEN FloatVal(parts[1]) * 60 + FloatVal(parts[2])
    ELSE FloatVal(parts[1])

\* `duration = None`
NoDuration == -1

\* audio_tools.py:82-89 / 114-121
\*   duration = None
\*   if end and start: try: duration = max(0.0, end - start) except: duration = None
DurationOf(start, end) ==
    IF Truthy(end) /\ Truthy(start)
    THEN IF PartsOk(end) /\ PartsOk(start)
         THEN (IF to_seconds(end) - to_seconds(start) > 0
               THEN to_seconds(end) - to_seconds(start) ELSE 0)
         ELSE NoDuration
    ELSE NoDuration

\* f"{duration:.3f}" of a whole number of seconds
Fmt3(d) == Dec(d) \o <<".", "0", "0", "0">>

\* the staged input file and the names of the outputs
InputFile == <<"src">>
EffectOut(effect) == <<"src", "_", effect, ".mp3">>
ExtractOut == <<"src", ".mp3">>
TrimOut == <<"src", "_trim", ".mp3">>
VoiceOut == <<"src", ".ogg">>

\* apply_effect: the if / elif chain over the effect name
SupportedAny(effect) == TRUE

Supported(effect) == effect \in {"8d", "concert", "reverb", "slow"}

FilterOf(effect) ==
    CASE effect = "8d" -> <<"apulsator=hz=0.3">>
      [] effect = "concert" -> <<"aecho=0.8:0.9:1000:0.3,aecho=0.8:0.9:1800:0.25">>
      [] effect = "reverb" -> <<"aecho=0.6:0.7:50:0.5">>
      [] effect = "slow" -> <<"atempo=0.85">>
      [] OTHER -> <<"unbound">>

Mp3Args == << <<"-vn">>, <<"-c:a">>, <<"libmp3lame">>, <<"-q:a">>, <<"2">> >>

OpusArgs ==
    << <<"-vn">>, <<"-c:a">>, <<"libopus">>, <<"-b:a">>, <<"64k">>, <<"-vbr">>, <<"on">>,
       <<"-compression_level">>, <<"10">>, <<"-application">>, <<"voip">> >>

EffectCmd(effect) ==
    << <<"ffmpeg">>, <<"-y">>, <<"-i">>, InputFile, <<"-vn">>, <<"-af">>, FilterOf(effect),
       <<"-c:a">>, <<"libmp3lame">>, <<"-q:a">>, <<"2">>, EffectOut(effect) >>

ExtractCmd ==
    << <<"ffmpeg">>, <<"-y">>, <<"-i">>, InputFile >> \o Mp3Args \o <<ExtractOut>>

\* trim_audio_segment without its `elif end and not start` branch
TrimCmdNoTo(start, end) ==
    LET duration == DurationOf(start, end) IN
    << <<"ffmpeg">>, <<"-y">> >>
      \o (IF Truthy(start) THEN << <<"-ss">>, start >> ELSE <<>>)
      \o << <<"-i">>, InputFile >>
      \o (IF duration # NoDuration /\ duration > 0
          THEN << <<"-t">>, Fmt3(duration) >> ELSE <<>>)
      \o Mp3Args \o <<TrimOut>>

\* trim_audio_segment, audio_tools.py:81-95
TrimCmd(start, end) ==
    LET duration == DurationOf(start, end) IN
    << <<"ffmpeg">>, <<"-y">> >>
      \o (IF Truthy(start) THEN << <<"-ss">>, start >> ELSE <<>>)
      \o << <<"-i">>, InputFile >>
      \o (IF duration # NoDuration /\ duration > 0
          THEN << <<"-t">>, Fmt3(duration) >>
          ELSE IF Truthy(end) /\ ~Truthy(start) THEN << <<"-to">>, end >> ELSE <<>>)
      \o Mp3Args \o <<TrimOut>>

\* convert_to_voice without its `if start` branch
VoiceCmdNoSeek(start, end) ==
    LET duration == DurationOf(start, end) IN
    << <<"ffmpeg">>, <<"-y">> >>
      \o << <<"-i">>, InputFile >>
      \o (IF duration # NoDuration /\ duration > 0
          THEN << <<"-t">>, Fmt3(duration) >>
          ELSE IF Truthy(end) /\ ~Truthy(start) THEN << <<"-to">>, end >> ELSE <<>>)
      \o OpusArgs \o <<VoiceOut>>

\* convert_to_voice, audio_tools.py:113-140
VoiceCmd(start, end) ==
    LET duration == DurationOf(start, end) IN
    << <<"ffmpeg">>, <<"-y">> >>
      \o (IF Truthy(start) THEN << <<"-ss">>, start >> ELSE <<>>)
      \o << <<"-i">>, InputFile >>
      \o (IF duration # NoDuration /\ duration > 0
          THEN << <<"-t">>, Fmt3(duration) >>
          ELSE IF Truthy(end) /\ ~Truthy(start) THEN << <<"-to">>, end >> ELSE <<>>)
      \o OpusArgs \o <<VoiceOut>>

\* no audio_tools call in progress
NoAudio ==
    [pc |-> "idle", op |-> "none", effect |-> "", start |-> NoTs, end |-> NoTs,
     cmd |-> <<>>, out |-> <<>>, runs |-> 0, code |-> 0, stderr |-> "",
     result |-> <<>>, error |-> "", handler |-> "none"]

AudioInit == au = NoAudio

\* apply_effect(src_path, fx, tmp) up to `await asyncio.to_thread(_run, cmd)`
CallApplyEffect(effect) ==
    /\ au.pc \in {"idle", "done"}
    /\ au' = IF Supported(effect)
             THEN [NoAudio EXCEPT !.pc = "running", !.op = "apply_effect",
                                  !.effect = effect, !.cmd = EffectCmd(effect),
                                  !.out = EffectOut(effect)]
             ELSE [NoAudio EXCEPT !.pc = "raised", !.op = "apply_effect",
                                  !.effect = effect, !.error = "unknown effect"]

\* extract_audio_mp3(src_path, tmp) up to the engine
CallExtractAudio ==
    /\ au.pc \in {"idle", "done"}
    /\ au' = [NoAudio EXCEPT !.pc = "running", !.op = "extract_audio_mp3",
                             !.cmd = ExtractCmd, !.out = ExtractOut]

\* trim_audio_segment(src_path, start, end, tmp) up to the engine
CallTrim(start, end) ==
    /\ au.pc \in {"idle", "done"}
    /\ au' = [NoAudio EXCEPT !.pc = "running", !.op = "trim_audio_segment",
                             !.start = start, !.end = end,
                             !.cmd = TrimCmd(start, end), !.out = TrimOut]

\* convert_to_voice(src_path, tmp, start, end) up to the engine
CallVoice(start, end) ==
    /\ au.pc \in {"idle", "done"}
    /\ au' = [NoAudio EXCEPT !.pc = "running", !.op = "convert_to_voice",
                             !.start = start, !.end = end,
                             !.cmd = VoiceCmd(start, end), !.out = VoiceOut]

\* _run: `if p.returncode != 0`
RunFailedNever(code) == FALSE

RunFailed(code) == code # 0

\* _run(cmd): the engine runs once and exits; on a non-zero status _run raises
\* RuntimeError(stderr or "ffmpeg failed"), else the recipe returns out
EngineExit(code, stderr) ==
    /\ au.pc = "running"
    /\ au' = IF RunFailed(code)
             THEN [au EXCEPT !.pc = "raised", !.runs = @ + 1, !.code = code,
                             !.stderr = stderr,
                             !.error = IF stderr = "" THEN "ffmpeg failed" ELSE stderr]
             ELSE [au EXCEPT !.pc = "returned", !.runs = @ + 1, !.code = code,
                             !.stderr = stderr, !.result = au.out]

\* the handler after its guarded block: the returned artifact is sent
HandlerSend ==
    /\ au.pc = "returned"
    /\ au' = [au EXCEPT !.pc = "done", !.handler = "delivered"]

\* the handler's `except Exception:` clause: the failure is reported, `return`
HandlerReport ==
    /\ au.pc = "raised"
    /\ au' = [au EXCEPT !.pc = "done", !.handler = "reported"]

(* ------------------------ app/yt_helper.py: probe ----------------------- *)
\* a variant descriptor of the collaborator: f.get("vcodec"), f.get("height"),
\* f.get("acodec"), f.get("ext"); a missing key reads as None, and height 0
\* stands for a missing height
Vcodecs == {"none", "avc1"}
ProbeHeights == {0, 1, 2}
Acodecs == {None, "none", "mp4a"}
ProbeExts == {None, "", "mp4"}
Variants == [vcodec : Vcodecs, height : ProbeHeights, acodec : Acodecs, ext : ProbeExts]

\* info.get("formats") or []
FormatLists == UNION {[1..n -> Variants] : n \in 0..MaxFormats}

\* yt_helper.py:80  has_audio = f.get("acodec") not in (None, "none")
HasAudio(f) == f.acodec \notin {None, "none"}

\* `not ext`: a missing or empty container extension
EmptyExt(ext) == ext \in {None, ""}

\* an empty dict
NoFound == [h \in {} |-> [has_audio |-> FALSE, ext |-> None]]

\* the body of `for f in formats` with the merge keeping the first has_audio
MergeFormatKeepFirst(found, f) ==
    IF f.vcodec = "none" THEN found
    ELSE IF f.height = 0 THEN found
    ELSE IF f.height \notin DOMAIN found
    THEN [h \in DOMAIN found \cup {f.height} |->
            IF h = f.height THEN [has_audio |-> HasAudio(f), ext |-> f.ext] ELSE found[h]]
    ELSE [found EXCEPT ![f.height] =
            [has_audio |-> @.has_audio,
             ext |-> IF EmptyExt(@.ext) /\ ~EmptyExt(f.ext) THEN f.ext ELSE @.ext]]

\* the body of `for f in formats` with the extension of the first variant kept
MergeFormatKeepFirstExt(found, f) ==
    IF f.vcodec = "none" THEN found
    ELSE IF f.height = 0 THEN found
    ELSE IF f.height \notin DOMAIN found
    THEN [h \in DOMAIN found \cup {f.height} |->
            IF h = f.height THEN [has_audio |-> HasAudio(f), ext |-> f.ext] ELSE found[h]]
    ELSE [found EXCEPT ![f.height] =
            [has_audio |-> @.has_audio \/ HasAudio(f), ext |-> @.ext]]

\* yt_helper.py:75-87  the body of `for f in formats`
MergeFormat(found, f) ==
    IF f.vcodec = "none" THEN found
    ELSE IF f.height = 0 THEN found
    ELSE IF f.height \notin DOMAIN found
    THEN [h \in DOMAIN found \cup {f.height} |->
            IF h = f.height THEN [has_audio |-> HasAudio(f), ext |-> f.ext] ELSE found[h]]
    ELSE [found EXCEPT ![f.height] =
            [has_audio |-> @.has_audio \/ HasAudio(f),
             ext |-> IF EmptyExt(@.ext) /\ ~EmptyExt(f.ext) THEN f.ext ELSE @.ext]]

\* yt_helper.py:73-87  the loop over the variants, first to last
RECURSIVE ProbeFound(_, _)
ProbeFound(formats, found) ==
    IF formats = <<>> THEN found
    ELSE ProbeFound(Tail(formats), MergeFormat(found, Head(formats)))

\* sorted(found.keys())
RECURSIVE SortedKeys(_)
SortedKeys(S) ==
    IF S = {} THEN <<>>
    ELSE LET m == CHOOSE x \in S : \A y \in S : x <= y
         IN <<m>> \o SortedKeys(S \ {m})

\* yt_helper.py:88-93  one FormatOption per key of found, in sorted order
ProbeOptions(found) ==
    LET keys == SortedKeys(DOMAIN found) IN
    [i \in 1..Len(keys) |->
        [height |-> keys[i],
         label |-> Dec(keys[i]) \o <<"p">>,
         has_audio |-> found[keys[i]].has_audio,
         ext |-> found[keys[i]].ext,
         format_string |-> ExactSelector(keys[i])]]

NoProbe == [pc |-> "idle", formats |-> <<>>, options |-> <<>>, url |-> <<>>, kb |-> <<>>]

ProbeInit == pr = NoProbe

\* probe(url, ...): the collaborator returns the variants and the options are built
ProbeCall(formats) ==
    /\ pr.pc = "idle"
    /\ pr' = [pr EXCEPT !.pc = "done", !.formats = formats,
                       !.options = ProbeOptions(ProbeFound(formats, NoFound))]

\* bot.py:219-224  the handler has answered (quality keyboard, or the message
\* that no formats were found) and returns
ProbeUsed ==
    /\ pr.pc = "answered"
    /\ pr' = NoProbe

(* ------- app/bot.py: resuming a multi-step interaction from the store ---- *)
\* The entries of `cache` a handler resumes from, for one selection key k and
\* one user: url:{k} and vid:{k} (bot.py:81-82, 88-89), file:{k} and title:{k}
\* (bot.py:231-233, 243-245), await_trim_times:{user} (bot.py:347).
StateKeys == {"url", "vid", "file", "title", "await_trim_times"}

\* the value each entry holds when it is set: the url and the id of the probed
\* source whose key k is, the file id and title of the upload, and k itself
StateValue(key) ==
    CASE key = "url" -> "U"
      [] key = "vid" -> "V"
      [] key = "file" -> "F"
      [] key = "title" -> "T"
      [] OTHER -> "K"

\* the handlers that resume from the store, and the buttons of the action menu
ResumeKinds == {"on_download", "on_audio", "on_effect_apply", "on_action", "on_text"}
Acts == {"fx", "trim", "voice"}

\* cache.set(key, value) of bot.py: no ttl argument, so the default ttl applies
StoreSet(d, key, value, now, dflt) == DictSet(d, key, value, ExpireAt(now, <<>>, dflt))

\* A message as the handlers read it: text and caption split at whitespace
\* (<<>> is None), the kind of the attachment, the mime type of a document as
\* <<type/, subtype>> and the extension of its file name, and the attachment of
\* the message it replies to.
NoMessage ==
    [text |-> <<>>, caption |-> <<>>, media |-> "none", mime |-> <<>>, ext |-> "none",
     reply |-> "none"]

\* the local variables of a handler's coroutine: the user, what it read from the store
\* (k, url, vid, file_id), the button pressed or the pending action taken up
\* (act), the pair of times of the
\* message (times), the result of the cache lookup (cached), the message being
\* handled (msg), and, as history,
\* whether sending the cached file worked
\* (sent), whether the handler was suspended at the limiter (waited), the
\* arguments of each job call it made (ran), the caption it sent and what it
\* has answered or sent so far (out)
NoLocals ==
    [user |-> "none", k |-> None, url |-> None, vid |-> None, file_id |-> None,
     act |-> "none", times |-> None, cached |-> <<>>, sent |-> "none", waited |-> FALSE, ran |-> <<>>,
     caption |-> None, msg |-> NoMessage, out |-> <<>>]

\* no file has been written under audio_tmp
NoFiles == <<>>

JobInit ==
    /\ hloc = [h \in Handlers |-> NoLocals]
    /\ tmpfs = NoFiles

\* bot.py:676, 748  `if not url or not vid`; bot.py:170, 280, 333  `if not file_id`
StateMissingBoth(kind, loc) ==
    IF kind \in FetchKinds THEN loc.url = None /\ loc.vid = None
    ELSE loc.file_id = None

StateMissing(kind, loc) ==
    IF kind \in FetchKinds THEN loc.url = None \/ loc.vid = None
    ELSE loc.file_id = None

\* the arguments a handler passes to its job: its own local variables
\* (bot.py:183-184, 299-300, 369-370, 706, 774)
JobInputFromStore(loc, d, now) ==
    [url |-> GetValue(d, "url", now), vid |-> GetValue(d, "vid", now),
     file_id |-> GetValue(d, "file", now), times |-> loc.times]

JobInput(loc, d, now) ==
    [url |-> loc.url, vid |-> loc.vid, file_id |-> loc.file_id, times |-> loc.times]

\* bot.py:78-92  _quality_keyboard writes url:{k} and then vid:{k}; each set
\* samples the time itself, and dt is the time that passed between the two
OfferQualities(dt) ==
    /\ clock + dt <= MaxClock
    /\ clock' = clock + dt
    /\ data' = StoreSet(StoreSet(data, "url", StateValue("url"), clock, default_ttl),
                        "vid", StateValue("vid"), clock + dt, default_ttl)
    /\ UNCHANGED <<default_ttl, ref, lastSet, lastOp>>

\* bot.py:229-233, 241-245  _build_effect_kb / _build_action_kb write file:{k}
\* and title:{k} (the title of an uploaded audio is never empty)
BuildActionKb ==
    /\ data' = StoreSet(StoreSet(data, "file", StateValue("file"), clock, default_ttl),
                        "title", StateValue("title"), clock, default_ttl)
    /\ UNCHANGED <<clock, default_ttl, ref, lastSet, lastOp>>

\* a callback query or a text message arrives and the dispatcher starts the
\* handler; act is the button of the action menu (on_action only)
Resumes(h, kind, act) ==
    /\ hpc[h] = "idle"
    /\ (kind = "on_action") = (act \in Acts)
    /\ hkind' = [hkind EXCEPT ![h] = kind]
    /\ hpc' = [hpc EXCEPT ![h] = "reading"]
    /\ hslot' = [hslot EXCEPT ![h] = "none"]
    /\ hloc' = [hloc EXCEPT ![h] = [NoLocals EXCEPT !.act = act]]
    /\ UNCHANGED <<semVars, cacheVars, tmpfs>>

\* bot.py:674-678, 743-748  on_download / on_audio read url:{k} and vid:{k} and
\* report expiry unless both are there
ReadFetchState(h) ==
    LET url == GetValue(data, "url", clock)
        vid == GetValue(data, "vid", clock)
        loc == [hloc[h] EXCEPT !.url = url, !.vid = vid]
    IN /\ hkind[h] \in FetchKinds
       /\ data' = GetDict(GetDict(data, "url", clock), "vid", clock)
       /\ hloc' = [hloc EXCEPT ![h] = loc]
       /\ hpc' = [hpc EXCEPT ![h] = IF StateMissing(hkind[h], loc) THEN "expired"
                                    ELSE FirstStep(hkind[h])]

\* bot.py:279-282  on_effect_apply reads file:{k}
ReadEffectState(h) ==
    LET loc == [hloc[h] EXCEPT !.file_id = GetValue(data, "file", clock)]
    IN /\ hkind[h] = "on_effect_apply"
       /\ data' = GetDict(data, "file", clock)
       /\ hloc' = [hloc EXCEPT ![h] = loc]
       /\ hpc' = [hpc EXCEPT ![h] = IF StateMissing(hkind[h], loc) THEN "expired"
                                    ELSE FirstStep(hkind[h])]

\* bot.py:332-366  on_action reads file:{k}; "fx" rebuilds the effect keyboard
\* (file:{k} again, title:{k} when the title is still there), "trim" records
\* await_trim_times, both return; "voice" goes on to the guarded block
ReadActionState(h) ==
    LET loc == [hloc[h] EXCEPT !.file_id = GetValue(data, "file", clock)]
        d1 == GetDict(data, "file", clock)
        title == GetValue(d1, "title", clock)
        d2 == GetDict(d1, "title", clock)
        d3 == StoreSet(d2, "file", loc.file_id, clock, default_ttl)
    IN /\ hkind[h] = "on_action"
       /\ hloc' = [hloc EXCEPT ![h] = loc]
       /\ IF StateMissing(hkind[h], loc)
          THEN /\ data' = d1
               /\ hpc' = [hpc EXCEPT ![h] = "expired"]
          ELSE CASE loc.act = "fx" ->
                      /\ data' = IF title # None
                                 THEN StoreSet(d3, "title", title, clock, default_ttl)
                                 ELSE d3
                      /\ hpc' = [hpc EXCEPT ![h] = "asked"]
                 [] loc.act = "trim" ->
                      /\ data' = StoreSet(d1, "await_trim_times",
                                          StateValue("await_trim_times"), clock, default_ttl)
                      /\ hpc' = [hpc EXCEPT ![h] = "asked"]
                 [] OTHER ->
                      /\ data' = d1
                      /\ hpc' = [hpc EXCEPT ![h] = FirstStep(hkind[h])]

\* bot.py:164  parts[0], parts[1] of a well-formed trim-times message
TrimTimes == <<"0:10", "1:00">>

\* bot.py:162-172, 205  on_text reads await_trim_times:{user}; without it the
\* message is handled as a link; with it and a well-formed pair of times it
\* reads file:{k}, clears await_trim_times and reports expiry when the file
\* entry is gone
ReadTrimState(h, valid) ==
    LET k == GetValue(data, "await_trim_times", clock)
        d1 == GetDict(data, "await_trim_times", clock)
        loc == [hloc[h] EXCEPT !.k = k, !.times = TrimTimes,
                               !.file_id = GetValue(d1, "file", clock)]
        d2 == StoreSet(GetDict(d1, "file", clock), "await_trim_times", None,
                       clock, default_ttl)
    IN /\ hkind[h] = "on_text"
       /\ IF k = None
          THEN /\ data' = d1
               /\ hloc' = [hloc EXCEPT ![h].k = k]
               /\ hpc' = [hpc EXCEPT ![h] = "link"]
          ELSE IF ~valid
          THEN /\ data' = d1
               /\ hloc' = [hloc EXCEPT ![h].k = k]
               /\ hpc' = [hpc EXCEPT ![h] = "rejected"]
          ELSE /\ data' = d2
               /\ hloc' = [hloc EXCEPT ![h] = loc]
               /\ hpc' = [hpc EXCEPT ![h] = IF StateMissing(hkind[h], loc) THEN "expired"
                                            ELSE FirstStep(hkind[h])]

\* the handler's code up to its first await after reading the store
ReadState(h, valid) ==
    /\ hpc[h] = "reading"
    /\ \/ ReadFetchState(h) /\ valid
       \/ ReadEffectState(h) /\ valid
       \/ ReadActionState(h) /\ valid
       \/ ReadTrimState(h, valid)
    /\ UNCHANGED <<clock, default_ttl, ref, lastSet, lastOp, hkind, hslot, semVars, tmpfs>>

\* the handler returns without a job: expiry reported, a menu or a question
\* sent, the time pair rejected, or the message handled as a link
Return(h) ==
    /\ hpc[h] \in {"expired", "asked", "rejected", "link"}
    /\ hpc' = [hpc EXCEPT ![h] = "idle"]
    /\ hkind' = [hkind EXCEPT ![h] = "none"]
    /\ UNCHANGED <<hslot, hloc, semVars, cacheVars, tmpfs>>

\* the job is invoked with the handler's local variables and returns or raises
JobRuns(h) ==
    /\ hpc[h] = "job"
    /\ JobOk(h) \/ JobFail(h)
    /\ hloc' = [hloc EXCEPT ![h].ran = Append(@, JobInput(hloc[h], data, clock))]
    /\ UNCHANGED <<cacheVars, tmpfs>>

\* bot.py:194, 310  after the block on_text and on_effect_apply read title:{k}
\* for the caption, "Audio" when it is gone; the other handlers send without it
DeliverResult(h) ==
    /\ Deliver(h)
    /\ IF hkind[h] \in {"on_text", "on_effect_apply"}
       THEN /\ hloc' = [hloc EXCEPT ![h].caption =
                           IF GetValue(data, "title", clock) # None
                           THEN GetValue(data, "title", clock) ELSE "Audio"]
            /\ data' = GetDict(data, "title", clock)
       ELSE UNCHANGED <<hloc, data>>
    /\ UNCHANGED <<clock, default_ttl, ref, lastSet, lastOp, tmpfs>>

(* ------- app/bot.py: on_download / on_audio over the download directory --- *)
\* The requests of this part are for one source: its url and id were read from
\* the store (url, vid), and the quality button carries one height.
FetchId == <<"a">>
FetchHeight == 1

\* the file the job of a handler of this kind leaves in the download directory
\* (yt_helper.py:55, 157)
FetchedName(kind) ==
    IF kind = "on_download" THEN VideoName(FetchId, FetchHeight, <<"m", "p", "4">>)
    ELSE AudioName(FetchId, <<"m", "p", "3">>)

\* bot.py:690, 758  the cache lookup of a handler of this kind
CachedFor(kind, dir, vid) ==
    IF kind = "on_download" THEN find_cached_file(dir, vid, FetchHeight)
    ELSE find_cached_audio_file(dir, vid)

\* bot.py:691-704, 759-772  where the handler stands after the lookup: it has
\* returned when the artifact was found and sent, else it is at the limiter
\* (nothing found, or sending the cached file raised)
LookupGoesHitEnds(cached, sent) == IF cached # NoPath THEN "sent_cached" ELSE "acquire"

LookupGoes(cached, sent) == IF cached # NoPath /\ sent THEN "sent_cached" ELSE "acquire"

\* on_download / on_audio start with url:{key} and vid:{key} read (bot.py:674-689,
\* 743-757)
FetchStart(h, kind) ==
    /\ kind \in FetchKinds
    /\ Start(h, kind)
    /\ hloc' = [hloc EXCEPT ![h] = [NoLocals EXCEPT !.url = StateValue("url"), !.vid = FetchId]]
    /\ UNCHANGED <<files, tmpfs>>

\* bot.py:690-704, 758-772  the lookup, and the attempt to send what it found
FetchLookup(h, sent) ==
    LET cached == CachedFor(hkind[h], files, hloc[h].vid) IN
    /\ hpc[h] = "lookup"
    /\ cached = NoPath => sent = FALSE
    /\ IF LookupGoes(cached, sent) = "sent_cached" THEN LookupHit(h) ELSE LookupMiss(h)
    /\ hloc' = [hloc EXCEPT ![h].cached = cached,
                            ![h].sent = IF cached = NoPath THEN "none"
                                        ELSE IF sent THEN "ok" ELSE "failed"]
    /\ UNCHANGED <<files, tmpfs>>

\* bot.py:704, 772  `async with _download_sem:`
FetchAcquire(h) ==
    /\ Acquire(h)
    /\ hloc' = [hloc EXCEPT ![h].waited = (hpc'[h] = "waiting")]
    /\ UNCHANGED <<files, tmpfs>>

\* bot.py:706-709, 774-777  download / download_audio returns with the file in
\* the download directory
FetchJobOk(h) ==
    /\ JobOk(h)
    /\ files' = files \cup {FetchedName(hkind[h])}
    /\ hloc' = [hloc EXCEPT ![h].ran = Append(@, JobInput(hloc[h], data, clock))]
    /\ UNCHANGED tmpfs

\* bot.py:710  download / download_audio raises
FetchJobFail(h) ==
    /\ JobFail(h)
    /\ hloc' = [hloc EXCEPT ![h].ran = Append(@, JobInput(hloc[h], data, clock))]
    /\ UNCHANGED <<files, tmpfs>>

\* the handler returns: its local variables are gone
FetchEnd(h) ==
    /\ Finish(h) \/ Deliver(h)
    /\ hloc' = [hloc EXCEPT ![h] = NoLocals]
    /\ UNCHANGED <<files, tmpfs>>

(* ------- app/bot.py: the transcoding handlers over the users' tmp files --- *)
\* the users sending requests, and the handlers of this part: on_effect_apply
\* (apply_effect) and the trim-times branch of on_text (trim_audio_segment)
Users == {"u1", "u2"}
StageKinds == {"on_effect_apply", "on_text"}

\* bot.py:275  the effect named by the button
StageEffect == "8d"

\* bot.py:105-106, 175, 295  src_path = {download_dir}/audio_tmp/{user_id}/src
SrcPath(user) == <<user>> \o InputFile

\* audio_tools.py:18-19, 50-51, 70-71, 102-103  out = {output_dir}/{base}..., the
\* output_dir being the user's tmp directory and base the name of the input
OutPath(user, kind) ==
    <<user>> \o (CASE JobOf(kind) = "apply_effect" -> EffectOut(StageEffect)
                   [] JobOf(kind) = "trim_audio_segment" -> TrimOut
                   [] JobOf(kind) = "convert_to_voice" -> VoiceOut
                   [] OTHER -> ExtractOut)

\* the file at path is (over)written; who is the handler whose request the
\* content belongs to
WriteFile(tree, path, who) ==
    [p \in DOMAIN tree \cup {path} |-> IF p = path THEN who ELSE tree[p]]

\* a transcoding handler starts for a user with the file id of the upload read
\* (bot.py:168-180, 279-296)
StageStart(h, kind, user) ==
    /\ kind \in StageKinds
    /\ Start(h, kind)
    /\ hloc' = [hloc EXCEPT ![h] = [NoLocals EXCEPT !.user = user,
                                                    !.file_id = StateValue("file")]]
    /\ UNCHANGED tmpfs

\* bot.py:183, 299  _download_by_id(bot, file_id, src_path) writes the upload
\* to the user's staging path
StageOk(h) ==
    /\ StagingOk(h)
    /\ tmpfs' = WriteFile(tmpfs, SrcPath(hloc[h].user), h)
    /\ UNCHANGED hloc

\* bot.py:184, 300  the recipe has read the staging path and written its output
\* (ffmpeg -y overwrites); the block ends
TranscodeOk(h) ==
    /\ JobOk(h)
    /\ tmpfs' = WriteFile(tmpfs, OutPath(hloc[h].user, hkind[h]), h)
    /\ UNCHANGED hloc

\* the files last written by somebody else than who
FilesOfOthers(tree, who) == [p \in {q \in DOMAIN tree : tree[q] # who} |-> tree[p]]

\* the handler returns: its local variables are gone; its files stay on the
\* disk but are no longer the files of a request in flight
StageEnd(h) ==
    /\ Finish(h) \/ Deliver(h)
    /\ hloc' = [hloc EXCEPT ![h] = NoLocals]
    /\ tmpfs' = FilesOfOthers(tmpfs, h)

(* ------------ app/bot.py: the quality keyboard of a probed url ----------- *)
\* A url as the text the code sees: the scheme, the labels of the host, and the
\* path with the query, cut into pieces so that a text searched for is a piece.
ProbeUrls ==
    {[scheme |-> "https://", host |-> <<"www.", "youtube.com">>, path |-> <<"/watch?v=a">>],
     [scheme |-> "https://", host |-> <<"WWW.", "YouTube.com">>, path |-> <<"/watch?v=a">>],
     [scheme |-> "https://", host |-> <<"youtu.be">>, path |-> <<"/a">>],
     [scheme |-> "https://", host |-> <<"vimeo.com">>, path |-> <<"/a">>],
     [scheme |-> "https://", host |-> <<"vimeo.com">>, path |-> <<"/a?ref=", "youtube.com">>]}

UrlText(u) == <<u.scheme>> \o u.host \o u.path

\* str.lower()
Lower(piece) ==
    CASE piece = "WWW." -> "www."
      [] piece = "YouTube.com" -> "youtube.com"
      [] OTHER -> piece

\* bot.py:74-76  _is_youtube: "youtube.com" or "youtu.be" occurs in the
\* lower-cased url
IsYoutube(text) ==
    \E i \in 1..Len(text) : Lower(text[i]) \in {"youtube.com", "youtu.be"}

\* bot.py:80-91  the rows of _quality_keyboard: a button d|{key}|{height} per
\* option, and the button a|{key}|mp3 when _is_youtube(pr.url)
QualityButtons(options, text) ==
    [i \in 1..Len(options) |-> [kind |-> "d", height |-> options[i].height]]
        \o (IF IsYoutube(text) THEN <<[kind |-> "a", codec |-> "mp3"]>> ELSE <<>>)

\* bot.py:219-224  on_text after probe returned the result for url (the
\* collaborator's webpage_url, or the url sent): without options it answers
\* that no formats were found; else _quality_keyboard writes url:{key} and
\* vid:{key} (bot.py:82-83, 89-90) and the keyboard is sent
OnProbed(url) ==
    /\ pr.pc = "done"
    /\ IF pr.options = <<>>
       THEN /\ pr' = [pr EXCEPT !.pc = "answered", !.url = url, !.kb = <<>>]
            /\ UNCHANGED data
       ELSE /\ pr' = [pr EXCEPT !.pc = "answered", !.url = url,
                                !.kb = QualityButtons(pr.options, UrlText(url))]
            /\ data' = StoreSet(StoreSet(data, "url", StateValue("url"), clock, default_ttl),
                                "vid", StateValue("vid"), clock, default_ttl)
    /\ UNCHANGED <<clock, default_ttl, ref, lastSet, lastOp>>

(* --------- app/bot.py: the dispatcher and the message handlers ---------- *)
\* a text message, and an upload with its caption
Text(tokens) == [NoMessage EXCEPT !.text = tokens]
Upload(media, mime, ext, caption) ==
    [NoMessage EXCEPT !.media = media, !.mime = mime, !.ext = ext, !.caption = caption]

\* the messages a user sends: commands, a pair of times, a link; an audio, a
\* native video, documents holding a video, an audio or something else, a
\* photo; uploads captioned with a command or a link
Messages ==
    {Text(<<"/start">>), Text(<<"/effect">>), Text(<<"/trim", "0:30", "1:10">>),
     Text(<<"/voice">>), [Text(<<"/effect">>) EXCEPT !.reply = "audio"],
     Text(<<"0:10", "1:00">>), Text(<<"https://youtu.be/a">>),
     Upload("audio", <<>>, "none", <<>>),
     Upload("audio", <<>>, "none", <<"/effect">>),
     Upload("video", <<>>, "none", <<>>),
     Upload("video", <<>>, "none", <<"/effect">>),
     Upload("video", <<>>, "none", <<"/trim", "0:30", "1:10">>),
     Upload("video", <<>>, "none", <<"/voice">>),
     Upload("document", <<"video/", "mp4">>, ".mp4", <<>>),
     Upload("document", <<"audio/", "mpeg">>, ".mp3", <<>>),
     Upload("document", <<"application/", "pdf">>, ".pdf", <<>>),
     Upload("photo", <<>>, "none", <<"https://youtu.be/a">>)}

\* the messages that set a pending state, and the audio that takes it up
PendingMessages ==
    {m \in Messages : m.media = "audio" \/ (m.media = "video" /\ m.caption # <<>>)}

\* bot.py:156-640  the message handlers in the order setup_dispatcher registers
\* them
Registered ==
    <<"on_start", "on_text", "on_effect", "on_trim", "on_voice", "on_audio_message",
      "on_video_message", "on_caption">>

\* aiogram's Command filter: the first word of the text, or of the caption
\* when there is no text, is the command
Command(msg, name) ==
    LET t == IF msg.text # <<>> THEN msg.text ELSE msg.caption
    IN t # <<>> /\ t[1] = name

\* bot.py:156, 160, 253, 390, 444, 497, 591, 640  the filter of each handler
Matches(handler, msg) ==
    CASE handler = "on_start" -> Command(msg, "/start")
      [] handler = "on_text" -> msg.text # <<>>
      [] handler = "on_effect" -> Command(msg, "/effect")
      [] handler = "on_trim" -> Command(msg, "/trim")
      [] handler = "on_voice" -> Command(msg, "/voice")
      [] handler = "on_audio_message" -> msg.media \in {"audio", "voice", "document"}
      [] handler = "on_video_message" -> msg.media \in {"video", "document"}
      [] handler = "on_caption" -> msg.caption # <<>>
      [] OTHER -> FALSE

\* the dispatcher hands a message to the first registered handler whose filter
\* matches, and to none of the later ones
DispatchLast(msg) ==
    LET hits == SelectSeq(Registered, LAMBDA n : Matches(n, msg))
    IN IF hits = <<>> THEN "none" ELSE hits[Len(hits)]

Dispatch(msg) ==
    LET hits == SelectSeq(Registered, LAMBDA n : Matches(n, msg))
    IN IF hits = <<>> THEN "none" ELSE Head(hits)

\* bot.py:109-119  _extract_audio_obj: which attachment counts as an audio
ExtractAudioObj(media, mime, ext) ==
    IF media \in {"audio", "voice"} THEN media
    ELSE IF /\ media = "document"
            /\ \/ mime # <<>> /\ mime[1] = "audio/"
               \/ ext \in {".mp3", ".m4a", ".aac", ".flac", ".wav", ".ogg", ".opus"}
    THEN "document"
    ELSE "none"

\* bot.py:255-259, 401-405, 455-459  the audio of the message replied to, else
\* the audio of the message itself
Target(msg) ==
    IF ExtractAudioObj(msg.reply, <<>>, "none") # "none"
    THEN ExtractAudioObj(msg.reply, <<>>, "none")
    ELSE ExtractAudioObj(msg.media, msg.mime, msg.ext)

\* bot.py:226-227  _valid_time, over the words of Messages
ValidTime(s) == s \in {"0:10", "1:00", "0:30", "1:10"}

\* bot.py:164-165  the first two words are times
ValidPairAny(parts) == Len(parts) >= 2

ValidPair(parts) == Len(parts) >= 2 /\ ValidTime(parts[1]) /\ ValidTime(parts[2])

\* bot.py:49-67  _extract_url: the link in the text, else in the caption
ExtractUrl(msg) ==
    LET links(t) == SelectSeq(t, LAMBDA w : w = "https://youtu.be/a")
    IN IF links(msg.text) # <<>> THEN Head(links(msg.text))
       ELSE IF links(msg.caption) # <<>> THEN Head(links(msg.caption))
       ELSE None

\* bot.py:229-233, 241-245  what _build_effect_kb and _build_action_kb write
BuildKb(d, now, dflt) ==
    StoreSet(StoreSet(d, "file", StateValue("file"), now, dflt),
             "title", StateValue("title"), now, dflt)

\* a message arrives and the dispatcher picks its handler
Arrives(h, msg) ==
    /\ hpc[h] = "idle"
    /\ Dispatch(msg) # "none"
    /\ hkind' = [hkind EXCEPT ![h] = Dispatch(msg)]
    /\ hpc' = [hpc EXCEPT ![h] = "reading"]
    /\ hslot' = [hslot EXCEPT ![h] = "none"]
    /\ hloc' = [hloc EXCEPT ![h] = [NoLocals EXCEPT !.msg = msg]]
    /\ UNCHANGED <<semVars, cacheVars, tmpfs>>

\* what a handler's code up to its first await leaves alone
Untouched == UNCHANGED <<clock, default_ttl, ref, lastSet, lastOp, hkind, hslot, semVars, tmpfs>>

\* bot.py:156-158
on_start(h) ==
    /\ hpc[h] = "reading"
    /\ Untouched
    /\ hkind[h] = "on_start"
    /\ hloc' = [hloc EXCEPT ![h].out = <<"greeting">>]
    /\ hpc' = [hpc EXCEPT ![h] = "asked"]
    /\ UNCHANGED data

\* bot.py:160-205  on_text up to its first await, the words of the message
\* being the pair of times
on_text(h) ==
    /\ hpc[h] = "reading"
    /\ Untouched
    /\ ReadTrimState(h, ValidPair(hloc[h].msg.text))

\* bot.py:322-366  on_action up to its first await
on_action(h) ==
    /\ hpc[h] = "reading"
    /\ Untouched
    /\ ReadActionState(h)

\* bot.py:253-267  without an audio to work on, await_fx is recorded
on_effect(h) ==
    /\ hpc[h] = "reading"
    /\ Untouched
    /\ hkind[h] = "on_effect"
    /\ IF Target(hloc[h].msg) = "none"
       THEN /\ data' = StoreSet(data, "await_fx", "True", clock, default_ttl)
            /\ hloc' = [hloc EXCEPT ![h].out = <<"send_audio">>]
       ELSE /\ data' = BuildKb(data, clock, default_ttl)
            /\ hloc' = [hloc EXCEPT ![h].out = <<"effect_kb">>]
    /\ hpc' = [hpc EXCEPT ![h] = "asked"]

\* bot.py:390-420  parts are the words of message.text; "P" stands for the
\* pair (start, end) recorded under await_trim
on_trim(h) ==
    LET parts == hloc[h].msg.text IN
    /\ hpc[h] = "reading"
    /\ Untouched
    /\ hkind[h] = "on_trim"
    /\ IF Len(parts) < 3
       THEN /\ data' = StoreSet(data, "await_trim", None, clock, default_ttl)
            /\ hloc' = [hloc EXCEPT ![h].out = <<"usage">>]
            /\ hpc' = [hpc EXCEPT ![h] = "asked"]
       ELSE IF ~(ValidTime(parts[2]) /\ ValidTime(parts[3]))
       THEN /\ hpc' = [hpc EXCEPT ![h] = "rejected"]
            /\ UNCHANGED <<data, hloc>>
       ELSE IF Target(hloc[h].msg) = "none"
       THEN /\ data' = StoreSet(data, "await_trim", "P", clock, default_ttl)
            /\ hloc' = [hloc EXCEPT ![h].out = <<"send_audio">>]
            /\ hpc' = [hpc EXCEPT ![h] = "asked"]
       ELSE /\ hloc' = [hloc EXCEPT ![h].file_id = StateValue("file"),
                                    ![h].times = <<parts[2], parts[3]>>]
            /\ hpc' = [hpc EXCEPT ![h] = "acquire"]
            /\ UNCHANGED data

\* bot.py:444-474  "W" stands for the window (start, end) recorded under
\* await_voice, either of which may be None
on_voice(h) ==
    LET parts == hloc[h].msg.text
        start == IF Len(parts) > 1 THEN parts[2] ELSE None
        end == IF Len(parts) > 2 THEN parts[3] ELSE None
    IN /\ hpc[h] = "reading"
       /\ Untouched
       /\ hkind[h] = "on_voice"
       /\ IF (start # None /\ ~ValidTime(start)) \/ (end # None /\ ~ValidTime(end))
          THEN /\ hpc' = [hpc EXCEPT ![h] = "rejected"]
               /\ UNCHANGED <<data, hloc>>
          ELSE IF Target(hloc[h].msg) = "none"
          THEN /\ data' = StoreSet(data, "await_voice", "W", clock, default_ttl)
               /\ hloc' = [hloc EXCEPT ![h].out = <<"send_audio">>]
               /\ hpc' = [hpc EXCEPT ![h] = "asked"]
          ELSE /\ hloc' = [hloc EXCEPT ![h].file_id = StateValue("file")]
               /\ hpc' = [hpc EXCEPT ![h] = "acquire"]
               /\ UNCHANGED data

\* bot.py:497-564, 587-589  on_audio_message up to its first await: the three
\* pending states are read, a message without an audio is dropped, and the
\* first pending state that is set is cleared and taken up (on_trim records
\* only pairs of valid times, so the test of bot.py:515 passes); with none
\* set the action menu is built
PendingKept(d, key, now, dflt) == d

ClearPending(d, key, now, dflt) == StoreSet(d, key, None, now, dflt)

on_audio_message(h) ==
    LET msg == hloc[h].msg
        state_fx == GetValue(data, "await_fx", clock)
        state_trim == GetValue(data, "await_trim", clock)
        state_voice == GetValue(data, "await_voice", clock)
        d1 == GetDict(GetDict(GetDict(data, "await_fx", clock), "await_trim", clock),
                      "await_voice", clock)
    IN /\ hpc[h] = "reading"
       /\ Untouched
       /\ hkind[h] = "on_audio_message"
       /\ IF ExtractAudioObj(msg.media, msg.mime, msg.ext) = "none"
          THEN /\ data' = d1
               /\ hpc' = [hpc EXCEPT ![h] = "ignored"]
               /\ UNCHANGED hloc
          ELSE IF state_fx # None
          THEN /\ data' = BuildKb(ClearPending(d1, "await_fx", clock, default_ttl),
                                  clock, default_ttl)
               /\ hloc' = [hloc EXCEPT ![h].act = "fx", ![h].out = <<"effect_kb">>]
               /\ hpc' = [hpc EXCEPT ![h] = "asked"]
          ELSE IF state_trim # None
          THEN /\ data' = ClearPending(d1, "await_trim", clock, default_ttl)
               /\ hloc' = [hloc EXCEPT ![h].act = "trim",
                                       ![h].file_id = StateValue("file")]
               /\ hpc' = [hpc EXCEPT ![h] = "acquire"]
          ELSE IF state_voice # None
          THEN /\ data' = ClearPending(d1, "await_voice", clock, default_ttl)
               /\ hloc' = [hloc EXCEPT ![h].act = "voice",
                                       ![h].file_id = StateValue("file")]
               /\ hpc' = [hpc EXCEPT ![h] = "acquire"]
          ELSE /\ data' = BuildKb(d1, clock, default_ttl)
               /\ hloc' = [hloc EXCEPT ![h].out = <<"action_kb">>]
               /\ hpc' = [hpc EXCEPT ![h] = "asked"]

\* bot.py:591-612  a native video, or a document that is a video by its mime
\* type or its extension
on_video_message(h) ==
    LET msg == hloc[h].msg
        media == IF msg.media = "video" THEN "video"
                 ELSE IF /\ msg.media = "document"
                         /\ \/ msg.mime # <<>> /\ msg.mime[1] = "video/"
                            \/ msg.ext \in {".mp4", ".mov", ".mkv", ".webm"}
                 THEN "document"
                 ELSE "none"
    IN /\ hpc[h] = "reading"
       /\ Untouched
       /\ hkind[h] = "on_video_message"
       /\ IF media = "none"
          THEN /\ hpc' = [hpc EXCEPT ![h] = "ignored"]
               /\ UNCHANGED hloc
          ELSE /\ hloc' = [hloc EXCEPT ![h].file_id = StateValue("file")]
               /\ hpc' = [hpc EXCEPT ![h] = "acquire"]
       /\ UNCHANGED data

\* bot.py:640-642  on_caption goes straight to the link
on_caption(h) ==
    /\ hpc[h] = "reading"
    /\ Untouched
    /\ hkind[h] = "on_caption"
    /\ hpc' = [hpc EXCEPT ![h] = "link"]
    /\ UNCHANGED <<data, hloc>>

\* bot.py:205-224, 642-661  without a link the message is refused, else the
\* link is probed
Probes(h) ==
    /\ hpc[h] = "link"
    /\ IF ExtractUrl(hloc[h].msg) = None
       THEN /\ hpc' = [hpc EXCEPT ![h] = "rejected"]
            /\ UNCHANGED hloc
       ELSE /\ hpc' = [hpc EXCEPT ![h] = "done"]
            /\ hloc' = [hloc EXCEPT ![h].url = ExtractUrl(hloc[h].msg),
                                    ![h].out = <<"probe">>]
    /\ UNCHANGED <<hkind, hslot, semVars, cacheVars, tmpfs>>

\* the call site of the block a handler is in
Site(h) ==
    IF hkind[h] = "on_audio_message"
    THEN IF hloc[h].act = "trim" THEN "on_audio_message_trim" ELSE "on_audio_message_voice"
    ELSE hkind[h]

\* bot.py:193-204, 379-388, 432-442, 486-495, 540-551, 576-589, 624-638  after
\* the block the result is sent (on_text reads title:{k} for it); every
\* handler is at its end then, except on_audio_message after a pending
\* conversion to voice, which has no return and runs on into bot.py:587
SendResult(h) ==
    /\ hpc[h] = "deliver"
    /\ hpc' = [hpc EXCEPT ![h] = IF Site(h) = "on_audio_message_voice" THEN "menu"
                                 ELSE "done"]
    /\ hloc' = [hloc EXCEPT ![h].out = Append(@, JobOf(Site(h)))]
    /\ data' = IF hkind[h] = "on_text" THEN GetDict(data, "title", clock) ELSE data
    /\ UNCHANGED <<clock, default_ttl, ref, lastSet, lastOp, hkind, hslot, semVars, tmpfs>>

\* bot.py:587-589  the action menu
ShowMenu(h) ==
    /\ hpc[h] = "menu"
    /\ data' = BuildKb(data, clock, default_ttl)
    /\ hloc' = [hloc EXCEPT ![h].out = Append(@, "action_kb")]
    /\ hpc' = [hpc EXCEPT ![h] = "done"]
    /\ UNCHANGED <<clock, default_ttl, ref, lastSet, lastOp, hkind, hslot, semVars, tmpfs>>

\* the handler has returned and the dispatcher closes the update
Returns(h) ==
    /\ hpc[h] \in {"done", "failed", "asked", "rejected", "expired", "ignored"}
    /\ hpc' = [hpc EXCEPT ![h] = "idle"]
    /\ hkind' = [hkind EXCEPT ![h] = "none"]
    /\ hslot' = [hslot EXCEPT ![h] = "none"]
    /\ hloc' = [hloc EXCEPT ![h] = NoLocals]
    /\ UNCHANGED <<semVars, cacheVars, tmpfs>>

(* ---------------------------- specifications ---------------------------- *)
CacheNext ==
    \/ Tick /\ UNCHANGED <<threadVars, semVars, handlerVars, dlVars, toolVars, jobVars>>
    \/ \E k \in Keys, v \in Values, ttl \in TtlArgs :
          CacheSet(k, v, ttl) /\ UNCHANGED <<threadVars, semVars, handlerVars, dlVars, toolVars, jobVars>>
    \/ \E k \in Keys : CacheGet(k) /\ UNCHANGED <<threadVars, semVars, handlerVars, dlVars, toolVars, jobVars>>
    \/ CacheCleanup /\ UNCHANGED <<threadVars, semVars, handlerVars, dlVars, toolVars, jobVars>>

CacheSpecInit ==
    CacheInit /\ ThreadInit /\ SemDefault /\ HandlerInit /\ DlInit /\ AudioInit /\ ProbeInit
    /\ JobInit

CacheSpec == CacheSpecInit /\ [][CacheNext]_vars

CacheThreadNext ==
    \/ Tick /\ UNCHANGED <<threadVars, semVars, handlerVars, dlVars, toolVars, jobVars>>
    \/ \E t \in Threads, k \in ThreadKeys, v \in ThreadValues, ttl \in TtlArgs :
          TCallSet(t, k, v, ttl) /\ UNCHANGED <<semVars, handlerVars, dlVars, toolVars, jobVars>>
    \/ \E t \in Threads, k \in ThreadKeys :
          TCallGet(t, k) /\ UNCHANGED <<semVars, handlerVars, dlVars, toolVars, jobVars>>
    \/ \E t \in Threads : TCallCleanup(t) /\ UNCHANGED <<semVars, handlerVars, dlVars, toolVars, jobVars>>
    \/ \E t \in Threads : TAcquire(t) /\ UNCHANGED <<semVars, handlerVars, dlVars, toolVars, jobVars>>
    \/ \E t \in Threads : TBody(t) /\ UNCHANGED <<semVars, handlerVars, dlVars, toolVars, jobVars>>
    \/ \E t \in Threads : TRelease(t) /\ UNCHANGED <<semVars, handlerVars, dlVars, toolVars, jobVars>>

CacheThreadSpec == CacheSpecInit /\ [][CacheThreadNext]_vars

\* the steps of the handlers after they were started
Progress ==
    \/ \E h \in Handlers : LookupHit(h) /\ UNCHANGED <<cacheVars, threadVars, dlVars, toolVars, jobVars>>
    \/ \E h \in Handlers : LookupMiss(h) /\ UNCHANGED <<cacheVars, threadVars, dlVars, toolVars, jobVars>>
    \/ \E h \in Handlers : Acquire(h) /\ UNCHANGED <<cacheVars, threadVars, dlVars, toolVars, jobVars>>
    \/ \E h \in Handlers : Resume(h) /\ UNCHANGED <<cacheVars, threadVars, dlVars, toolVars, jobVars>>
    \/ \E h \in Handlers : StagingOk(h) /\ UNCHANGED <<cacheVars, threadVars, dlVars, toolVars, jobVars>>
    \/ \E h \in Handlers : StagingFail(h) /\ UNCHANGED <<cacheVars, threadVars, dlVars, toolVars, jobVars>>
    \/ \E h \in Handlers : JobOk(h) /\ UNCHANGED <<cacheVars, threadVars, dlVars, toolVars, jobVars>>
    \/ \E h \in Handlers : JobFail(h) /\ UNCHANGED <<cacheVars, threadVars, dlVars, toolVars, jobVars>>
    \/ \E h \in Handlers : FailReturn(h) /\ UNCHANGED <<cacheVars, threadVars, dlVars, toolVars, jobVars>>
    \/ \E h \in Handlers : Finish(h) /\ UNCHANGED <<cacheVars, threadVars, dlVars, toolVars, jobVars>>
    \/ \E h \in Handlers : Deliver(h) /\ UNCHANGED <<cacheVars, threadVars, dlVars, toolVars, jobVars>>

Next ==
    \/ \E h \in Handlers, kind \in Kinds :
          Start(h, kind) /\ UNCHANGED <<cacheVars, threadVars, dlVars, toolVars, jobVars>>
    \/ Progress

\* the liveness check starts one handler of each shape of block
ShapeKinds == {"on_download", "on_effect_apply"}

FairNext ==
    \/ \E h \in Handlers, kind \in ShapeKinds :
          Start(h, kind) /\ UNCHANGED <<cacheVars, threadVars, dlVars, toolVars, jobVars>>
    \/ Progress

\* the cache is not used by this specification: one fixed state of it
Init == CacheInit /\ ThreadInit /\ SemInit /\ HandlerInit /\ DlInit /\ AudioInit /\ ProbeInit
    /\ JobInit

Spec == Init /\ [][Next]_vars

\* Every admitted job finishes and the event loop resumes every woken waiter:
\* the steps of a handler that is inside its block, or that has been handed a
\* slot, are not postponed forever.
Fairness ==
    \A h \in Handlers :
        /\ WF_vars(BlockStep(h) /\ UNCHANGED <<cacheVars, threadVars, dlVars, toolVars, jobVars>>)
        /\ WF_vars(Resume(h) /\ UNCHANGED <<cacheVars, threadVars, dlVars, toolVars, jobVars>>)

FairSpec == Init /\ [][FairNext]_vars /\ Fairness

\* All call sites: the guarded blocks differ only in the operation they invoke,
\* and the handlers are interchangeable, so one handler ranges over every site
\* of bot.py while the others run one handler of each shape of block.
SiteKinds(h) == IF h = 1 THEN Sites ELSE ShapeKinds

SiteNext ==
    \/ \E h \in Handlers, kind \in Sites :
          /\ kind \in SiteKinds(h)
          /\ Start(h, kind)
          /\ UNCHANGED <<cacheVars, threadVars, dlVars, toolVars, jobVars>>
    \/ Progress

SiteSpec == Init /\ [][SiteNext]_vars

DownloadNext ==
    \/ \E u \in Urls, h \in Heights :
          DownloadCall(u, h) /\ UNCHANGED <<cacheVars, threadVars, semVars, handlerVars, toolVars, jobVars>>
    \/ \E avail \in SUBSET Heights, ext \in VideoExts, err \in Errors \cup {""} :
          DownloadPrimary(avail, ext, err)
            /\ UNCHANGED <<cacheVars, threadVars, semVars, handlerVars, toolVars, jobVars>>
    \/ \E avail \in SUBSET Heights, ext \in VideoExts, err \in Errors \cup {""} :
          DownloadFallback(avail, ext, err)
            /\ UNCHANGED <<cacheVars, threadVars, semVars, handlerVars, toolVars, jobVars>>
    \/ \E u \in Urls, ext \in AudioExts, err \in Errors \cup {""} :
          DownloadAudio(u, ext, err)
            /\ UNCHANGED <<cacheVars, threadVars, semVars, handlerVars, toolVars, jobVars>>
    \/ DownloadEnd /\ UNCHANGED <<cacheVars, threadVars, semVars, handlerVars, toolVars, jobVars>>
    \/ \E v \in Ids, h \in Heights :
          FindCachedFile(v, h) /\ UNCHANGED <<cacheVars, threadVars, semVars, handlerVars, toolVars, jobVars>>
    \/ \E v \in Ids :
          FindCachedAudioFile(v) /\ UNCHANGED <<cacheVars, threadVars, semVars, handlerVars, toolVars, jobVars>>

DownloadSpec == CacheSpecInit /\ [][DownloadNext]_vars

AudioNext ==
    \/ \E effect \in EffectNames :
          CallApplyEffect(effect)
            /\ UNCHANGED <<cacheVars, threadVars, semVars, handlerVars, dlVars, pr, jobVars>>
    \/ CallExtractAudio /\ UNCHANGED <<cacheVars, threadVars, semVars, handlerVars, dlVars, pr, jobVars>>
    \/ \E start \in Timestamps, end \in Timestamps :
          CallTrim(start, end)
            /\ UNCHANGED <<cacheVars, threadVars, semVars, handlerVars, dlVars, pr, jobVars>>
    \/ \E start \in Timestamps, end \in Timestamps :
          CallVoice(start, end)
            /\ UNCHANGED <<cacheVars, threadVars, semVars, handlerVars, dlVars, pr, jobVars>>
    \/ \E code \in ExitCodes, stderr \in StderrTexts :
          EngineExit(code, stderr)
            /\ UNCHANGED <<cacheVars, threadVars, semVars, handlerVars, dlVars, pr, jobVars>>
    \/ HandlerSend /\ UNCHANGED <<cacheVars, threadVars, semVars, handlerVars, dlVars, pr, jobVars>>
    \/ HandlerReport /\ UNCHANGED <<cacheVars, threadVars, semVars, handlerVars, dlVars, pr, jobVars>>

AudioSpec == CacheSpecInit /\ [][AudioNext]_vars

ProbeNext ==
    \/ /\ pr.pc = "idle"
       /\ \E formats \in FormatLists :
            ProbeCall(formats)
              /\ UNCHANGED <<cacheVars, threadVars, semVars, handlerVars, dlVars, au, jobVars>>
    \/ \E url \in ProbeUrls :
          OnProbed(url) /\ UNCHANGED <<threadVars, semVars, handlerVars, dlVars, au, jobVars>>
    \/ ProbeUsed /\ UNCHANGED <<cacheVars, threadVars, semVars, handlerVars, dlVars, au, jobVars>>

ProbeSpec == CacheSpecInit /\ [][ProbeNext]_vars

\* Resuming from the store: one handler at a time resumes an interaction while
\* the other handlers' synchronous code writes the entries (OfferQualities,
\* BuildActionKb) and time passes.
ResumeHandlers == {CHOOSE h \in Handlers : \A g \in Handlers : h <= g}

ResumeNext ==
    \/ Tick /\ UNCHANGED <<threadVars, semVars, handlerVars, dlVars, toolVars, jobVars>>
    \/ \E dt \in {0, 1} :
          OfferQualities(dt)
            /\ UNCHANGED <<threadVars, semVars, handlerVars, dlVars, toolVars, jobVars>>
    \/ BuildActionKb /\ UNCHANGED <<threadVars, semVars, handlerVars, dlVars, toolVars, jobVars>>
    \/ \E h \in ResumeHandlers, kind \in ResumeKinds, act \in Acts \cup {"none"} :
          Resumes(h, kind, act) /\ UNCHANGED <<threadVars, dlVars, toolVars>>
    \/ \E h \in ResumeHandlers, valid \in BOOLEAN :
          ReadState(h, valid) /\ UNCHANGED <<threadVars, dlVars, toolVars>>
    \/ \E h \in ResumeHandlers : Return(h) /\ UNCHANGED <<threadVars, dlVars, toolVars>>
    \/ \E h \in ResumeHandlers :
          LookupHit(h) /\ UNCHANGED <<cacheVars, threadVars, dlVars, toolVars, jobVars>>
    \/ \E h \in ResumeHandlers :
          LookupMiss(h) /\ UNCHANGED <<cacheVars, threadVars, dlVars, toolVars, jobVars>>
    \/ \E h \in ResumeHandlers :
          Acquire(h) /\ UNCHANGED <<cacheVars, threadVars, dlVars, toolVars, jobVars>>
    \/ \E h \in ResumeHandlers :
          StagingOk(h) /\ UNCHANGED <<cacheVars, threadVars, dlVars, toolVars, jobVars>>
    \/ \E h \in ResumeHandlers :
          StagingFail(h) /\ UNCHANGED <<cacheVars, threadVars, dlVars, toolVars, jobVars>>
    \/ \E h \in ResumeHandlers : JobRuns(h) /\ UNCHANGED <<threadVars, dlVars, toolVars>>
    \/ \E h \in ResumeHandlers :
          FailReturn(h) /\ UNCHANGED <<cacheVars, threadVars, dlVars, toolVars, jobVars>>
    \/ \E h \in ResumeHandlers :
          Finish(h) /\ UNCHANGED <<cacheVars, threadVars, dlVars, toolVars, jobVars>>
    \/ \E h \in ResumeHandlers : DeliverResult(h) /\ UNCHANGED <<threadVars, dlVars, toolVars>>

ResumeSpec == Init /\ [][ResumeNext]_vars


\* the handlers that serve the requests in flight
Requests == 1..NumRequests

\* The fetching handlers over the download directory: every handler runs
\* on_download or on_audio for the same source.
FetchNext ==
    \/ \E h \in Requests, kind \in FetchKinds :
          FetchStart(h, kind) /\ UNCHANGED <<cacheVars, threadVars, dl, lastFind, toolVars>>
    \/ \E h \in Requests, sent \in BOOLEAN :
          FetchLookup(h, sent) /\ UNCHANGED <<cacheVars, threadVars, dl, lastFind, toolVars>>
    \/ \E h \in Requests :
          FetchAcquire(h) /\ UNCHANGED <<cacheVars, threadVars, dl, lastFind, toolVars>>
    \/ \E h \in Requests :
          Resume(h) /\ UNCHANGED <<cacheVars, threadVars, dlVars, toolVars, jobVars>>
    \/ \E h \in Requests :
          FetchJobOk(h) /\ UNCHANGED <<cacheVars, threadVars, dl, lastFind, toolVars>>
    \/ \E h \in Requests :
          FetchJobFail(h) /\ UNCHANGED <<cacheVars, threadVars, dl, lastFind, toolVars>>
    \/ \E h \in Requests :
          FailReturn(h) /\ UNCHANGED <<cacheVars, threadVars, dlVars, toolVars, jobVars>>
    \/ \E h \in Requests :
          FetchEnd(h) /\ UNCHANGED <<cacheVars, threadVars, dl, lastFind, toolVars>>

FetchSpec == Init /\ [][FetchNext]_vars

\* The transcoding handlers over the files under audio_tmp.
StageNext ==
    \/ \E h \in Requests, kind \in StageKinds, user \in Users :
          StageStart(h, kind, user) /\ UNCHANGED <<cacheVars, threadVars, dlVars, toolVars>>
    \/ \E h \in Requests :
          Acquire(h) /\ UNCHANGED <<cacheVars, threadVars, dlVars, toolVars, jobVars>>
    \/ \E h \in Requests :
          Resume(h) /\ UNCHANGED <<cacheVars, threadVars, dlVars, toolVars, jobVars>>
    \/ \E h \in Requests :
          StageOk(h) /\ UNCHANGED <<cacheVars, threadVars, dlVars, toolVars>>
    \/ \E h \in Requests :
          StagingFail(h) /\ UNCHANGED <<cacheVars, threadVars, dlVars, toolVars, jobVars>>
    \/ \E h \in Requests :
          TranscodeOk(h) /\ UNCHANGED <<cacheVars, threadVars, dlVars, toolVars>>
    \/ \E h \in Requests :
          JobFail(h) /\ UNCHANGED <<cacheVars, threadVars, dlVars, toolVars, jobVars>>
    \/ \E h \in Requests :
          FailReturn(h) /\ UNCHANGED <<cacheVars, threadVars, dlVars, toolVars, jobVars>>
    \/ \E h \in Requests :
          StageEnd(h) /\ UNCHANGED <<cacheVars, threadVars, dlVars, toolVars>>

StageSpec == Init /\ [][StageNext]_vars

\* The dispatcher and the message handlers: messages and presses of the action
\* menu's buttons arrive one after the other, and time passes.
DispatchNext ==
    \/ Tick /\ UNCHANGED <<threadVars, semVars, handlerVars, dlVars, toolVars, jobVars>>
    \/ \E h \in ResumeHandlers, msg \in Messages :
          Arrives(h, msg) /\ UNCHANGED <<threadVars, dlVars, toolVars>>
    \/ \E h \in ResumeHandlers, act \in Acts :
          Resumes(h, "on_action", act) /\ UNCHANGED <<threadVars, dlVars, toolVars>>
    \/ \E h \in ResumeHandlers : on_start(h) /\ UNCHANGED <<threadVars, dlVars, toolVars>>
    \/ \E h \in ResumeHandlers : on_text(h) /\ UNCHANGED <<threadVars, dlVars, toolVars>>
    \/ \E h \in ResumeHandlers : on_effect(h) /\ UNCHANGED <<threadVars, dlVars, toolVars>>
    \/ \E h \in ResumeHandlers : on_action(h) /\ UNCHANGED <<threadVars, dlVars, toolVars>>
    \/ \E h \in ResumeHandlers : on_trim(h) /\ UNCHANGED <<threadVars, dlVars, toolVars>>
    \/ \E h \in ResumeHandlers : on_voice(h) /\ UNCHANGED <<threadVars, dlVars, toolVars>>
    \/ \E h \in ResumeHandlers :
          on_audio_message(h) /\ UNCHANGED <<threadVars, dlVars, toolVars>>
    \/ \E h \in ResumeHandlers :
          on_video_message(h) /\ UNCHANGED <<threadVars, dlVars, toolVars>>
    \/ \E h \in ResumeHandlers : on_caption(h) /\ UNCHANGED <<threadVars, dlVars, toolVars>>
    \/ \E h \in ResumeHandlers : Probes(h) /\ UNCHANGED <<threadVars, dlVars, toolVars>>
    \/ \E h \in ResumeHandlers :
          Acquire(h) /\ UNCHANGED <<cacheVars, threadVars, dlVars, toolVars, jobVars>>
    \/ \E h \in ResumeHandlers :
          StagingOk(h) /\ UNCHANGED <<cacheVars, threadVars, dlVars, toolVars, jobVars>>
    \/ \E h \in ResumeHandlers :
          StagingFail(h) /\ UNCHANGED <<cacheVars, threadVars, dlVars, toolVars, jobVars>>
    \/ \E h \in ResumeHandlers :
          JobOk(h) /\ UNCHANGED <<cacheVars, threadVars, dlVars, toolVars, jobVars>>
    \/ \E h \in ResumeHandlers :
          JobFail(h) /\ UNCHANGED <<cacheVars, threadVars, dlVars, toolVars, jobVars>>
    \/ \E h \in ResumeHandlers :
          FailReturn(h) /\ UNCHANGED <<cacheVars, threadVars, dlVars, toolVars, jobVars>>
    \/ \E h \in ResumeHandlers : SendResult(h) /\ UNCHANGED <<threadVars, dlVars, toolVars>>
    \/ \E h \in ResumeHandlers : ShowMenu(h) /\ UNCHANGED <<threadVars, dlVars, toolVars>>
    \/ \E h \in ResumeHandlers : Returns(h) /\ UNCHANGED <<threadVars, dlVars, toolVars>>

DispatchSpec == Init /\ [][DispatchNext]_vars

\* The pending states: several messages in flight at once, each either setting
\* a pending state or an audio that takes one up, around the limiter.
PendingNext ==
    \/ \E h \in Requests, msg \in PendingMessages :
          Arrives(h, msg) /\ UNCHANGED <<threadVars, dlVars, toolVars>>
    \/ \E h \in Requests : on_effect(h) /\ UNCHANGED <<threadVars, dlVars, toolVars>>
    \/ \E h \in Requests : on_trim(h) /\ UNCHANGED <<threadVars, dlVars, toolVars>>
    \/ \E h \in Requests : on_voice(h) /\ UNCHANGED <<threadVars, dlVars, toolVars>>
    \/ \E h \in Requests : on_audio_message(h) /\ UNCHANGED <<threadVars, dlVars, toolVars>>
    \/ \E h \in Requests :
          Acquire(h) /\ UNCHANGED <<cacheVars, threadVars, dlVars, toolVars, jobVars>>
    \/ \E h \in Requests :
          Resume(h) /\ UNCHANGED <<cacheVars, threadVars, dlVars, toolVars, jobVars>>
    \/ \E h \in Requests :
          StagingOk(h) /\ UNCHANGED <<cacheVars, threadVars, dlVars, toolVars, jobVars>>
    \/ \E h \in Requests :
          StagingFail(h) /\ UNCHANGED <<cacheVars, threadVars, dlVars, toolVars, jobVars>>
    \/ \E h \in Requests :
          JobOk(h) /\ UNCHANGED <<cacheVars, threadVars, dlVars, toolVars, jobVars>>
    \/ \E h \in Requests :
          JobFail(h) /\ UNCHANGED <<cacheVars, threadVars, dlVars, toolVars, jobVars>>
    \/ \E h \in Requests :
          FailReturn(h) /\ UNCHANGED <<cacheVars, threadVars, dlVars, toolVars, jobVars>>
    \/ \E h \in Requests : SendResult(h) /\ UNCHANGED <<threadVars, dlVars, toolVars>>
    \/ \E h \in Requests : ShowMenu(h) /\ UNCHANGED <<threadVars, dlVars, toolVars>>
    \/ \E h \in Requests : Returns(h) /\ UNCHANGED <<threadVars, dlVars, toolVars>>

PendingSpec == Init /\ [][PendingNext]_vars

(* ------------------------ claims about the limiter ---------------------- *)

\* C1: with the limiter built with N = max_concurrent_downloads >= 1 and M > N
\* handlers interleaving, the number of handlers executing inside an
\* `async with _download_sem` block is at most N in every reachable state.
C1_AtMostNInside ==
    /\ max_concurrent_downloads >= 1
    /\ NumHandlers > max_concurrent_downloads
    /\ Cardinality(Inside) <= max_concurrent_downloads

\* C1 witness: all N slots are in use inside blocks while another handler is
\* suspended on the limiter
C1_Witness ==
    /\ Cardinality(Inside) = max_concurrent_downloads
    /\ \E h \in Handlers : hpc[h] = "waiting"

\* C2: every exit from a guarded block (normal completion, or the early return
\* of the except clause) releases the slot exactly once: the free slots and the
\* slots held always add up to N, so whenever no handler holds a slot the number
\* of free slots is N.  (A handler holds a slot while inside its block, and while
\* release() has handed it the slot and it has not yet resumed.)
C2_SlotsConserved ==
    /\ sem_value >= 0
    /\ sem_value + Cardinality(Holders) = max_concurrent_downloads
    /\ Holders = {} => sem_value = max_concurrent_downloads

\* C2 witness: one handler has left its block by the early return of the except
\* clause, another by normal completion, and all N slots are free again
C2_Witness ==
    /\ Holders = {}
    /\ sem_value = max_concurrent_downloads
    /\ \E h \in Handlers : hpc[h] = "failed"
    /\ \E h \in Handlers : hpc[h] = "deliver"

\* C3: if every admitted job eventually finishes, every handler suspended on the
\* limiter is eventually admitted into its block, for M > N callers.
C3_NoStarvation ==
    \A h \in Handlers : (hpc[h] = "waiting") ~> (hpc[h] \in InBlock)

\* C3 witness: a suspended handler has been handed the slot of a job that ended,
\* while another handler is still suspended behind it
C3_Witness ==
    \E h \in Handlers :
        /\ hpc[h] = "waiting"
        /\ h \in sem_woken
        /\ \E g \in Handlers \ {h} : hpc[g] = "waiting" /\ g \notin sem_woken

\* C11: the cache lookup of on_download / on_audio runs before and outside the
\* guarded block.  A handler at the lookup has not touched the limiter; sending
\* the cached artifact is possible whatever the state of the limiter (also with
\* every slot held); and the step that completes the request from the cache
\* leaves the limiter as it was, the handler never having asked for a slot.
C11_CachedBypassesLimiter ==
    /\ [](\A h \in Handlers :
            hpc[h] \in {"lookup", "sent_cached"} =>
                /\ hkind[h] \in FetchKinds
                /\ hslot[h] = "none"
                /\ h \notin Holders
                /\ \A i \in 1..Len(sem_waiters) : sem_waiters[i] # h)
    /\ [](\A h \in Handlers :
            hpc[h] = "lookup" =>
                ENABLED (LookupHit(h) /\ UNCHANGED <<cacheVars, threadVars, dlVars, toolVars, jobVars>>))
    /\ [][\A h \in Handlers :
            (hpc[h] = "lookup" /\ hpc'[h] = "sent_cached") =>
                /\ UNCHANGED semVars
                /\ hslot'[h] = "none"]_vars

\* C11 witness: a request has been completed from the cache while all N slots
\* are held by jobs still running and another handler waits for a slot
C11_Witness ==
    /\ sem_value = 0
    /\ Cardinality(Inside) = max_concurrent_downloads
    /\ \E h \in Handlers : hpc[h] = "waiting"
    /\ \E h \in Handlers : hpc[h] = "sent_cached" /\ hslot[h] = "none"

\* C12: every invocation of download, download_audio, apply_effect,
\* extract_audio_mp3, trim_audio_segment or convert_to_voice, from any call site
\* of bot.py, happens while the invoking handler holds a slot of the limiter; the
\* slots so held, with those handed over by release(), are the slots taken.
C12_JobsHoldSlot ==
    /\ \A h \in Handlers :
          (hpc[h] = "job" /\ JobOf(hkind[h]) \in JobOps) => hslot[h] = "held"
    /\ \A h \in Handlers : hpc[h] = "job" => JobOf(hkind[h]) \in JobOps
    /\ \A h \in Handlers : hslot[h] = "held" <=> h \in Inside
    /\ Cardinality({h \in Handlers : hslot[h] = "held"}) + Cardinality(sem_woken)
          = max_concurrent_downloads - sem_value

\* C12 witness: a transcoding recipe and a fetch are being run at once, each by
\* a handler holding a slot
C12_Witness ==
    \E h, g \in Handlers :
        /\ hpc[h] = "job" /\ JobOf(hkind[h]) = "extract_audio_mp3" /\ hslot[h] = "held"
        /\ hpc[g] = "job" /\ JobOf(hkind[g]) = "download" /\ hslot[g] = "held"

(* ------------------ claims about download and the lookups ---------------- *)

\* C8: in every call of download the collaborator is invoked first with the
\* exact-height selector; if that succeeds its result is returned and nothing else
\* is tried; if it fails with any error whatsoever the relaxed fallback is tried
\* exactly once; the call fails only when the fallback fails too; there are never
\* more than two invocations.
C8_OneFallback ==
    dl.fn = "download" =>
        /\ Len(dl.attempts) <= 2
        /\ dl.pc = "primary" <=> dl.attempts = <<>>
        /\ dl.pc = "fallback" => Len(dl.attempts) = 1 /\ ~dl.attempts[1].ok
        /\ dl.pc \in {"returned", "raised"} =>
              /\ dl.attempts[1].selector = ExactSelector(dl.height)
              /\ IF dl.attempts[1].ok
                 THEN /\ Len(dl.attempts) = 1
                      /\ dl.pc = "returned"
                      /\ \E ext \in VideoExts :
                            dl.filepath = VideoName(dl.id, dl.attempts[1].height, ext)
                 ELSE /\ Len(dl.attempts) = 2
                      /\ dl.attempts[2].selector = RelaxedSelector(dl.height)
                      /\ dl.pc = "raised" <=> ~dl.attempts[2].ok
                      /\ dl.pc = "returned" =>
                            \E ext \in VideoExts :
                               dl.filepath = VideoName(dl.id, dl.attempts[2].height, ext)

\* C8 witness: the primary attempt failed with an error that is not a 403, the
\* fallback was tried and the call returned its result
C8_Witness ==
    /\ dl.fn = "download" /\ dl.pc = "returned"
    /\ Len(dl.attempts) = 2
    /\ dl.attempts[1].err = "network error"
    /\ dl.attempts[2].ok

\* C9: after download(url, h) returned successfully for content id c, through
\* the primary strategy or through the fallback, find_cached_file(dir, c, h)
\* returns a path.  (Stated as the claim states it; the fallback may write the
\* file under another height than h.)
C9_DownloadedIsCached ==
    (dl.fn = "download" /\ dl.pc = "returned") =>
        find_cached_file(files, dl.id, dl.height) # NoPath

\* the files named {id}_h{h}.<ext> / {id}_audio.<ext>, told by their prefix
HasPrefix(name, prefix) ==
    Len(name) >= Len(prefix) /\ SubSeq(name, 1, Len(prefix)) = prefix

Named(dir, prefix) == {f \in dir : HasPrefix(f, prefix)}

\* what a lookup has to return for the directory dir
Expected(dir, find) ==
    LET prefix == IF find.fn = "find_cached_file"
                  THEN find.id \o <<"_", "h">> \o Dec(find.height) \o <<".">>
                  ELSE find.id \o <<"_", "a", "u", "d", "i", "o", ".">>
        named == Named(dir, prefix)
    IN IF named = {} THEN NoPath
       ELSE CHOOSE m \in named : \A x \in named : x = m \/ StrLess(x, m)

\* C10: find_cached_file(dir, id, h) returns a path if and only if a file named
\* {id}_h{h}.<ext> is in the directory at the time of the call, and then the
\* lexicographically last such file; the call changes no file, takes no limiter
\* slot and starts no download or other job.  The same for
\* find_cached_audio_file and the names {id}_audio.<ext>.
C10_LookupIsExactAndPure ==
    [][(lastFind' # lastFind /\ lastFind'.fn # "none") =>
          /\ lastFind'.result = Expected(files, lastFind')
          /\ (lastFind'.result # NoPath <=>
                \E f \in files :
                    \E ext \in VideoExts \cup AudioExts :
                        f = IF lastFind'.fn = "find_cached_file"
                            THEN VideoName(lastFind'.id, lastFind'.height, ext)
                            ELSE AudioName(lastFind'.id, ext))
          /\ UNCHANGED <<files, dl, semVars, handlerVars, cacheVars, threadVars>>
      ]_vars

\* C10 witness: a lookup has found two files of the id and height asked for and
\* has returned the later one (.webm after .mp4)
C10_Witness ==
    /\ lastFind.fn = "find_cached_file"
    /\ Cardinality(Named(files, lastFind.id \o <<"_", "h">> \o Dec(lastFind.height)
                                    \o <<".">>)) = 2
    /\ lastFind.result = VideoName(lastFind.id, lastFind.height, <<"w", "e", "b", "m">>)

(* ----------------------- claims about the TTLCache ---------------------- *)

\* C4: after set(k, v, ttl) at time t and no later set(k), get(k) at time now
\* returns v whenever now < t + ttl and None whenever now >= t + ttl (the boundary
\* now = t + ttl included), whatever was done to other keys and whether or not
\* cleanup ran.  (Stated as the claim states it; the code returns v at now = t + ttl.)
C4_GetFollowsLatestSet ==
    (lastOp.op = "get" /\ lastOp.key \in DOMAIN lastSet) =>
        lastOp.value = IF lastOp.now < lastSet[lastOp.key][2]
                       THEN lastSet[lastOp.key][1]
                       ELSE None

\* C5: under concurrent set/get/cleanup with an advancing clock, the map is
\* touched only by the thread holding the lock, and a get never yields a value at
\* a moment later than the entry's expires_at, also when the caller sampled its
\* timestamp before waiting for the lock.
C5_LockedAndNeverAfterExpiry ==
    /\ \A t \in Threads : tpc[t] \in {"locked", "unlock"} => lock = t
    /\ (lastOp.op = "get" /\ lastOp.found /\ lastOp.value # None) =>
           lastOp.at <= lastOp.expire

\* C6: cleanup removes every entry that get would treat as expired at the time
\* of the call and leaves every other entry (value and expiry) as it was, and it is
\* transparent: every get returns what it returns on the cache that was given the
\* same set/get calls and no cleanup (ref).
C6_CleanupTransparent ==
    /\ lastOp.op = "get" => lastOp.value = lastOp.refvalue
    /\ lastOp.op = "cleanup" =>
           \A k \in DOMAIN data : GetValue(data, k, lastOp.now) = data[k][1]
    /\ \A k \in DOMAIN data : k \in DOMAIN ref /\ data[k] = ref[k]
    /\ \A k \in DOMAIN ref : ~(ref[k][2] < clock) => k \in DOMAIN data

\* C6 witness: a get of a key whose expired entry a cleanup had already removed,
\* while the cache without cleanup still held it
C6_Witness ==
    lastOp.op = "get" /\ ~lastOp.found /\ lastOp.reffound /\ lastOp.value = None

\* C7: set(k, v2, ttl2) replaces any prior entry of k: the entry of k is always
\* exactly what the latest set(k) wrote (value v2, expiry now + ttl2), it is present
\* as long as that expiry has not passed, a get(k) returns v2 before the new expiry
\* and None after it (always None after set(k, None)), and sets of other keys do
\* not change it.
C7_SetReplaces ==
    /\ \A k \in DOMAIN data : k \in DOMAIN lastSet /\ data[k] = lastSet[k]
    /\ \A k \in DOMAIN lastSet : clock <= lastSet[k][2] => k \in DOMAIN data
    /\ lastOp.op = "set" =>
           /\ lastOp.key \in DOMAIN data
           /\ data[lastOp.key] =
                 <<lastOp.value,
                   lastOp.now + (IF lastOp.ttl = <<>> THEN default_ttl
                                 ELSE lastOp.ttl[1])>>
    /\ lastOp.op = "get" =>
           IF lastOp.key \in DOMAIN lastSet
           THEN /\ lastOp.now < lastSet[lastOp.key][2] =>
                      lastOp.value = lastSet[lastOp.key][1]
                /\ lastOp.now > lastSet[lastOp.key][2] => lastOp.value = None
           ELSE lastOp.value = None

\* C7 witness: a set has just overwritten a live entry that had another value and
\* a later expiry
C7_Witness ==
    /\ lastOp.op = "set" /\ lastOp.found
    /\ lastOp.old[1] # lastOp.value
    /\ lastOp.old[2] > lastOp.expire
    /\ lastOp.old[2] >= clock

(* ------------------- claims about the transcode recipes ----------------- *)

\* C13: apply_effect with an effect name outside the supported set (8d, concert,
\* reverb, slow) fails with the unknown-effect error and the engine is not
\* invoked for that call; for each supported name the command carries that
\* name's one fixed filter expression and the engine is invoked exactly once.
C13_UnknownEffectNoRun ==
    LET names == {"8d", "concert", "reverb", "slow"}
        filters == [n \in names |->
                      CASE n = "8d" -> <<"apulsator=hz=0.3">>
                        [] n = "concert" ->
                             <<"aecho=0.8:0.9:1000:0.3,aecho=0.8:0.9:1800:0.25">>
                        [] n = "reverb" -> <<"aecho=0.6:0.7:50:0.5">>
                        [] n = "slow" -> <<"atempo=0.85">>]
    IN au.op = "apply_effect" =>
         /\ au.effect \notin names =>
              /\ au.pc \in {"raised", "done"}
              /\ au.error = "unknown effect"
              /\ au.runs = 0
              /\ au.cmd = <<>>
              /\ au.result = <<>>
              /\ au.handler # "delivered"
         /\ au.effect \in names =>
              /\ \E i \in 1..(Len(au.cmd) - 1) :
                    au.cmd[i] = <<"-af">> /\ au.cmd[i + 1] = filters[au.effect]
              /\ Cardinality({i \in 1..Len(au.cmd) : au.cmd[i] = <<"-af">>}) = 1
              /\ au.runs = (IF au.pc = "running" THEN 0 ELSE 1)

\* C13 witness: a call with an unsupported name has failed and been reported
C13_Witness ==
    /\ au.op = "apply_effect"
    /\ au.effect = "echo"
    /\ au.pc = "done"
    /\ au.handler = "reported"
    /\ au.runs = 0

\* the start / end argument was supplied
Given(ts) == ts # NoTs /\ ts # <<>>

\* seconds of a timestamp read left to right: a digit extends the current field,
\* ":" closes it and scales what was read so far by 60
RECURSIVE SecondsFrom(_, _, _)
SecondsFrom(ts, total, field) ==
    IF ts = <<>> THEN total + field
    ELSE IF Head(ts) = ":" THEN SecondsFrom(Tail(ts), (total + field) * 60, 0)
    ELSE SecondsFrom(Tail(ts), total, field * 10 + DigitVal(Head(ts)))

\* 3600*H + 60*M + S, 60*M + S, S
Seconds(ts) == SecondsFrom(ts, 0, 0)

Colons(ts) == Cardinality({i \in 1..Len(ts) : ts[i] = ":"})

\* a timestamp of the form H:MM:SS, M:SS or SS
WellFormed(ts) ==
    /\ Given(ts)
    /\ \A i \in 1..Len(ts) : ts[i] \in Digits \cup {":"}
    /\ Colons(ts) <= 2
    /\ ts[1] # ":" /\ ts[Len(ts)] # ":"
    /\ \A i \in 1..(Len(ts) - 1) : ~(ts[i] = ":" /\ ts[i + 1] = ":")

Malformed(ts) == Given(ts) /\ ~WellFormed(ts)

\* the position of the first occurrence of a piece in a command, 0 when absent
IndexOf(cmd, piece) ==
    IF \E i \in 1..Len(cmd) : cmd[i] = piece
    THEN CHOOSE i \in 1..Len(cmd) : cmd[i] = piece /\ \A j \in 1..(i - 1) : cmd[j] # piece
    ELSE 0

\* the argument following an option in a command
ArgOf(cmd, opt) == cmd[IndexOf(cmd, opt) + 1]

Has(cmd, opt) == IndexOf(cmd, opt) # 0

WindowOps == {"trim_audio_segment", "convert_to_voice"}

\* C14: trim_audio_segment and convert_to_voice called with start and end both
\* given and well-formed invoke the engine with the input sought to start
\* (-ss start before -i) and with the duration bound -t max(0, seconds(end) -
\* seconds(start)), also when end <= start, where the bound is 0.
C14_BothGivenBounded ==
    (au.op \in WindowOps /\ WellFormed(au.start) /\ WellFormed(au.end)) =>
        LET d == Seconds(au.end) - Seconds(au.start)
            clamped == IF d > 0 THEN d ELSE 0
        IN /\ Has(au.cmd, <<"-ss">>) /\ ArgOf(au.cmd, <<"-ss">>) = au.start
           /\ IndexOf(au.cmd, <<"-ss">>) < IndexOf(au.cmd, <<"-i">>)
           /\ Has(au.cmd, <<"-t">>) /\ ArgOf(au.cmd, <<"-t">>) = Fmt3(clamped)

\* C15: timestamps H:MM:SS, M:SS and SS are converted to 3600*H + 60*M + S,
\* 60*M + S and S; for well-formed start < end the duration handed to the engine
\* is seconds(end) - seconds(start); start "0:10", end "1:00" gives 50.000.
C15_SecondsAndDuration ==
    /\ \A ts \in Timestamps : WellFormed(ts) => to_seconds(ts) = Seconds(ts)
    /\ to_seconds(<<"1", ":", "0", "0", ":", "0", "5">>) = 3605
    /\ to_seconds(<<"1", ":", "0", "0">>) = 60
    /\ to_seconds(<<"3", "0">>) = 30
    /\ (/\ au.op \in WindowOps
        /\ WellFormed(au.start) /\ WellFormed(au.end)
        /\ Seconds(au.start) < Seconds(au.end)) =>
           /\ DurationOf(au.start, au.end) = Seconds(au.end) - Seconds(au.start)
           /\ Has(au.cmd, <<"-t">>)
           /\ ArgOf(au.cmd, <<"-t">>) = Fmt3(Seconds(au.end) - Seconds(au.start))
    /\ (/\ au.op \in WindowOps
        /\ au.start = <<"0", ":", "1", "0">>
        /\ au.end = <<"1", ":", "0", "0">>) =>
           ArgOf(au.cmd, <<"-t">>) = <<"5", "0", ".", "0", "0", "0">>

\* C15 witness: trim_audio_segment("0:10", "1:00") has run with -t 50.000
C15_Witness ==
    /\ au.op = "trim_audio_segment"
    /\ au.start = <<"0", ":", "1", "0">>
    /\ au.end = <<"1", ":", "0", "0">>
    /\ au.pc = "returned"
    /\ ArgOf(au.cmd, <<"-t">>) = <<"5", "0", ".", "0", "0", "0">>

\* C16: trim_audio_segment with only end given invokes the engine without a seek
\* and with the end bound -to end; with neither start nor end given the command
\* carries no seek and no bound.
C16_OnlyEndOrNeither ==
    au.op = "trim_audio_segment" =>
        /\ (~Given(au.start) /\ Given(au.end)) =>
              /\ ~Has(au.cmd, <<"-ss">>)
              /\ ~Has(au.cmd, <<"-t">>)
              /\ Has(au.cmd, <<"-to">>) /\ ArgOf(au.cmd, <<"-to">>) = au.end
              /\ IndexOf(au.cmd, <<"-to">>) > IndexOf(au.cmd, <<"-i">>)
        /\ (~Given(au.start) /\ ~Given(au.end)) =>
              au.cmd = << <<"ffmpeg">>, <<"-y">>, <<"-i">>, InputFile >>
                          \o Mp3Args \o <<TrimOut>>

\* C16 witness: trim_audio_segment(None, "0:30") has run
C16_Witness ==
    /\ au.op = "trim_audio_segment"
    /\ au.start = NoTs
    /\ au.end = <<"0", ":", "3", "0">>
    /\ au.pc = "returned"

\* the command of the given recipe
CmdOf(op, start, end) ==
    IF op = "trim_audio_segment" THEN TrimCmd(start, end) ELSE VoiceCmd(start, end)

\* C17: in trim_audio_segment and convert_to_voice a malformed start or end is
\* treated as if that bound had not been supplied: the call is not rejected and
\* the command equals the one built with that bound unset.
C17_MalformedAsUnset ==
    (au.op \in WindowOps /\ (Malformed(au.start) \/ Malformed(au.end))) =>
        /\ au.pc # "raised" \/ au.runs = 1
        /\ au.cmd = CmdOf(au.op,
                          IF Malformed(au.start) THEN NoTs ELSE au.start,
                          IF Malformed(au.end) THEN NoTs ELSE au.end)

\* C18: for every start and end (absent, well-formed or malformed)
\* convert_to_voice builds the same seek / duration / end-bound arguments as
\* trim_audio_segment; the two commands differ only in the encoding arguments
\* and the output file name.
C18_VoiceWindowAsTrim ==
    au.op = "convert_to_voice" =>
        LET n == Len(au.cmd) - Len(OpusArgs) - 1
            window == SubSeq(au.cmd, 1, n)
        IN /\ n >= 4
           /\ au.cmd = window \o OpusArgs \o <<VoiceOut>>
           /\ TrimCmd(au.start, au.end) = window \o Mp3Args \o <<TrimOut>>

\* C18 witness: convert_to_voice has run with a start and an end
C18_Witness ==
    /\ au.op = "convert_to_voice"
    /\ WellFormed(au.start) /\ WellFormed(au.end)
    /\ Seconds(au.start) < Seconds(au.end)
    /\ au.pc = "returned"

\* C19: a recipe returns its output path if and only if the engine exited with
\* status 0; on a non-zero exit it fails with an error carrying the engine's
\* stderr text, returns no path, the engine is not run again, and the failure
\* reaches the handler, which reports it and delivers nothing.
C19_ExitStatusDecides ==
    /\ au.runs <= 1
    /\ au.runs = 1 =>
         /\ au.pc \in {"returned", "raised", "done"}
         /\ (au.result # <<>>) <=> (au.code = 0)
         /\ au.code = 0 => au.result = au.out /\ au.error = ""
         /\ au.code # 0 =>
              /\ au.error # ""
              /\ au.stderr # "" => au.error = au.stderr
              /\ au.handler # "delivered"
              /\ au.pc = "done" => au.handler = "reported"
         /\ (au.pc = "done" /\ au.code = 0) => au.handler = "delivered"

\* C19 witness: the engine exited with status 1 and diagnostic text; the handler
\* has reported the failure
C19_Witness ==
    /\ au.op = "extract_audio_mp3"
    /\ au.runs = 1 /\ au.code = 1
    /\ au.stderr # "" /\ au.error = au.stderr
    /\ au.pc = "done" /\ au.handler = "reported"

(* --------------------------- claims about probe -------------------------- *)

\* the variants that have a visual track and a height
Visual(formats) ==
    {i \in 1..Len(formats) : formats[i].vcodec # "none" /\ formats[i].height # 0}

\* C20: for every variant list probe emits exactly one FormatOption per distinct
\* height among the variants with a visual track and a height, in strictly
\* ascending order of height; variants without a visual track contribute
\* nothing; has_audio of an option is the OR of has-audio over the merged
\* variants of its height; the selector of an option requests exactly its height.
C20_OneOptionPerHeight ==
    pr.pc = "done" =>
        LET fs == pr.formats
            opts == pr.options
            heights == {fs[i].height : i \in Visual(fs)}
        IN /\ Len(opts) = Cardinality(heights)
           /\ {opts[i].height : i \in 1..Len(opts)} = heights
           /\ \A i \in 1..(Len(opts) - 1) : opts[i].height < opts[i + 1].height
           /\ \A i \in 1..Len(opts) :
                 /\ opts[i].has_audio <=>
                      \E j \in Visual(fs) :
                         /\ fs[j].height = opts[i].height
                         /\ fs[j].acodec # None /\ fs[j].acodec # "none"
                 /\ \A avail \in SUBSET (ProbeHeights \ {0}) :
                      Selected(opts[i].format_string, avail) = avail \cap {opts[i].height}

\* C20 witness: two variants of one height with a visual track, the first
\* without audio and the second with it, were merged into one option with audio
C20_Witness ==
    /\ pr.pc = "done"
    /\ Len(pr.formats) = 2
    /\ pr.formats[1].vcodec # "none" /\ pr.formats[1].height = 2
    /\ pr.formats[1].acodec = "none"
    /\ pr.formats[2].vcodec # "none" /\ pr.formats[2].height = 2
    /\ pr.formats[2].acodec = "mp4a"
    /\ Len(pr.options) = 1
    /\ pr.options[1].height = 2 /\ pr.options[1].has_audio

\* the list with the extensions of its entries i and j exchanged
SwapExt(formats, i, j) ==
    [k \in 1..Len(formats) |->
        IF k = i THEN [formats[i] EXCEPT !.ext = formats[j].ext]
        ELSE IF k = j THEN [formats[j] EXCEPT !.ext = formats[i].ext]
        ELSE formats[k]]

\* the extension of the option of height h among the options, as a set
ExtAt(options, h) == {options[k].ext : k \in {n \in 1..Len(options) : options[n].height = h}}

\* C21: the merged extension of a height does not depend on which variant of
\* that height carries it: when exactly one variant (with a visual track) of a
\* height has a non-empty extension, the option of that height carries it, and
\* so does the option built from the list in which that extension sits on any
\* other variant of the same height instead.
C21_ExtOrderIndependent ==
    pr.pc = "done" =>
        LET fs == pr.formats IN
        \A i \in Visual(fs) :
            (/\ fs[i].ext \notin {None, ""}
             /\ \A k \in Visual(fs) \ {i} :
                    fs[k].height = fs[i].height => fs[k].ext \in {None, ""}) =>
                /\ ExtAt(pr.options, fs[i].height) = {fs[i].ext}
                /\ \A j \in Visual(fs) :
                      fs[j].height = fs[i].height =>
                          ExtAt(ProbeOptions(ProbeFound(SwapExt(fs, i, j), NoFound)),
                                fs[i].height) = {fs[i].ext}

\* C21 witness: of two variants of one height the second alone carries an
\* extension, and the merged option carries it
C21_Witness ==
    /\ pr.pc = "done"
    /\ Len(pr.formats) = 2
    /\ pr.formats[1].vcodec # "none" /\ pr.formats[2].vcodec # "none"
    /\ pr.formats[1].height = 1 /\ pr.formats[2].height = 1
    /\ pr.formats[1].ext = None /\ pr.formats[2].ext = "mp4"
    /\ Len(pr.options) = 1 /\ pr.options[1].ext = "mp4"

\* C22: download_audio invokes the collaborator exactly once per call; a failure
\* of that invocation reaches the caller, with no second attempt; on success the
\* artifact is in the directory under {content_id}_audio.<ext>, so that
\* find_cached_audio_file(dir, content_id) returns a path.
C22_AudioSingleStrategy ==
    dl.fn = "download_audio" =>
        /\ Len(dl.attempts) = 1
        /\ dl.pc \in {"returned", "raised"}
        /\ dl.attempts[1].ok <=> dl.pc = "returned"
        /\ ~dl.attempts[1].ok =>
              /\ dl.pc = "raised"
              /\ dl.attempts[1].err \in Errors
              /\ dl.filepath = NoPath
        /\ dl.attempts[1].ok =>
              /\ \E ext \in AudioExts :
                    dl.id \o <<"_", "a", "u", "d", "i", "o", ".">> \o ext \in files
              /\ find_cached_audio_file(files, dl.id) # NoPath
              /\ find_cached_audio_file(files, dl.id) \in files
              /\ dl.filepath = find_cached_audio_file(files, dl.id)

\* C22 witness: download_audio has returned, and a later lookup of the same id
\* would hit; another call of it has not been started
C22_Witness ==
    /\ dl.fn = "download_audio"
    /\ dl.pc = "returned"
    /\ Len(dl.attempts) = 1
    /\ find_cached_audio_file(files, dl.id) # NoPath

(* ------------------ claims about resuming from the store ----------------- *)
\* the entries a handler of this kind needs to resume
Required(kind) == IF kind \in FetchKinds THEN {"url", "vid"} ELSE {"file"}

\* the positions of a handler that has returned without a job
NoJobEnds == {"expired", "asked", "rejected", "link"}

\* the positions of a handler on its way to a job, in it, or after it
JobPath ==
    {"lookup", "sent_cached", "acquire", "waiting", "staging", "job", "failing",
     "failed", "deliver"}

\* C23: when a handler resumes an interaction and an entry it requires (url:{k}
\* and vid:{k} for on_download / on_audio, file:{k} for on_effect_apply,
\* on_action and the trim-times message) cannot be read from the store, being
\* absent or treated as expired by get, the handler reports expiry (on_text
\* may reject the time pair first) and does no job: it asks for no slot, the
\* limiter and the staged files stay as they were, it never reaches the
\* staging or the job position, and all it does next is return.  A handler on
\* the way to a download has read both url:{k} and vid:{k}.
C23_ExpiredNoJob ==
    /\ [][\A h \in Handlers :
            (/\ hpc[h] = "reading"
             /\ hpc'[h] # "reading"
             /\ \E key \in Required(hkind[h]) : GetValue(data, key, clock) = None
             /\ hkind[h] = "on_text" => GetValue(data, "await_trim_times", clock) # None) =>
                /\ hpc'[h] \in {"expired", "rejected"}
                /\ hpc'[h] = "rejected" => hkind[h] = "on_text"
                /\ hslot'[h] = "none"
                /\ UNCHANGED <<semVars, tmpfs>>]_vars
    /\ [][\A h \in Handlers :
            hpc[h] \in NoJobEnds => hpc'[h] \in {hpc[h], "idle"} /\ UNCHANGED <<semVars, tmpfs>>]_vars
    /\ [](\A h \in Handlers :
            /\ hpc[h] \in NoJobEnds => hslot[h] = "none" /\ hloc[h].ran = <<>>
            /\ hpc[h] \in JobPath /\ hkind[h] \in FetchKinds =>
                  hloc[h].url # None /\ hloc[h].vid # None
            /\ hpc[h] \in JobPath /\ hkind[h] \notin FetchKinds =>
                  hloc[h].file_id # None)

\* on_download has reported expiry with vid:{k} still readable and url:{k} gone
C23_Witness ==
    \E h \in Handlers :
        /\ hpc[h] = "expired"
        /\ hkind[h] = "on_download"
        /\ hloc[h].url = None
        /\ hloc[h].vid # None
        /\ hslot[h] = "none"

(* -------------------- claims about the quality keyboard ------------------ *)
\* the source belongs to the allow-listed family: the host of its url is
\* youtube.com or youtu.be, or a subdomain of them
InFamily(u) == Lower(u.host[Len(u.host)]) \in {"youtube.com", "youtu.be"}

AudioOffered(kb) == \E i \in 1..Len(kb) : kb[i].kind = "a"

\* C24: once on_text has answered for a probed source, the audio-only option is
\* among the options offered exactly when the url of the source is a YouTube
\* url; for every other source only height options are offered; and when the
\* audio option is offered, url:{key} and vid:{key} are in the store.
C24_AudioIffFamily ==
    pr.pc = "answered" =>
        /\ AudioOffered(pr.kb) <=> InFamily(pr.url)
        /\ ~InFamily(pr.url) => \A i \in 1..Len(pr.kb) : pr.kb[i].kind = "d"
        /\ AudioOffered(pr.kb) =>
              /\ GetValue(data, "url", clock) = StateValue("url")
              /\ GetValue(data, "vid", clock) = StateValue("vid")

(* ----------------------- claims about admission order ------------------- *)
\* C25: handlers suspended on the limiter are admitted in the order in which
\* they were suspended.  The waiters stand in sem_waiters in the order they
\* started waiting; a slot is never handed to a waiter while an earlier waiter
\* is without one; a waiter enters its block only as the oldest waiter; and a
\* handler arriving at the limiter takes a slot at once only when nobody is
\* waiting.  (Nothing is said about the order in which the jobs end.)
C25_FifoAdmission ==
    /\ [](\A i, j \in 1..Len(sem_waiters) :
            i < j /\ sem_waiters[j] \in sem_woken => sem_waiters[i] \in sem_woken)
    /\ [][\A h \in Handlers :
            /\ hpc[h] = "acquire" /\ hpc'[h] = "waiting" =>
                  sem_waiters' = Append(sem_waiters, h)
            /\ hpc[h] = "waiting" /\ hpc'[h] # "waiting" =>
                  h = Head(sem_waiters) /\ hpc'[h] \in InBlock \cup {"job"}
            /\ hpc[h] = "acquire" /\ hpc'[h] \notin {"acquire", "waiting"} =>
                  sem_waiters = <<>>]_vars

\* two handlers wait; the older one has been handed the freed slot and the
\* younger one has not
C25_Witness ==
    /\ Len(sem_waiters) >= 2
    /\ sem_waiters[1] \in sem_woken
    /\ sem_waiters[2] \notin sem_woken
    /\ hpc[sem_waiters[1]] = "waiting"

(* --------------- claims about the fetches and the cache lookup ----------- *)
\* the steps of FetchSpec leave the other parts alone
FetchFrame == UNCHANGED <<cacheVars, threadVars, dl, lastFind, toolVars>>

\* C26: the limiter gates the number of jobs, not the jobs per key.  While one
\* request is inside download (download_audio) and a slot is free, a second
\* request for the same source and height that missed the lookup enters its
\* download too.  A request that leaves the limiter's entry goes straight into
\* its download, with no lookup in between and the download directory
\* untouched by that step: a woken waiter, when its turn to resume comes, goes
\* on to download although its artifact is in the directory by now.
C26_NoPerKeyGate ==
    /\ [](\A a, b \in Handlers :
            (/\ a # b
             /\ hkind[a] \in FetchKinds /\ hkind[b] = hkind[a]
             /\ hpc[a] = "job" /\ hpc[b] = "acquire"
             /\ sem_value > 0 /\ sem_waiters = <<>>) =>
                ENABLED (FetchAcquire(b) /\ hpc'[b] = "job" /\ hpc'[a] = "job" /\ FetchFrame))
    /\ [](\A h \in Handlers :
            (/\ hkind[h] \in FetchKinds
             /\ hpc[h] = "waiting" /\ h \in sem_woken
             /\ h = FirstWoken(sem_waiters, sem_woken)
             /\ FetchedName(hkind[h]) \in files) =>
                ENABLED (Resume(h) /\ hpc'[h] = "job"
                         /\ UNCHANGED <<cacheVars, threadVars, dlVars, toolVars, jobVars>>))
    /\ [][\A h \in Handlers :
            (/\ hkind[h] \in FetchKinds
             /\ hpc[h] \in {"acquire", "waiting"}
             /\ hpc'[h] \notin {"acquire", "waiting"}) =>
                hpc'[h] = "job" /\ files' = files /\ hloc'[h].cached = hloc[h].cached]_vars

\* a request that found nothing at its lookup and then waited for a slot is
\* inside its download while the artifact, left by another request for the
\* same key that finished in the meantime, is in the download directory
C26_Witness ==
    \E h \in Handlers :
        /\ hpc[h] = "job"
        /\ hkind[h] = "on_download"
        /\ hloc[h].waited
        /\ hloc[h].cached = NoPath
        /\ find_cached_file(files, hloc[h].vid, FetchHeight) # NoPath

(* ----------------- claims about jobs in flight and the store ------------- *)
\* the steps a handler inside its guarded block can take
BlockSuccessors(pos) ==
    CASE pos = "staging" -> {"job", "failing"}
      [] pos = "job" -> {"deliver", "failing"}
      [] pos = "failing" -> {"failed"}
      [] OTHER -> {}

\* C27: once a handler has read its state from the store and been admitted,
\* the store no longer matters to its job.  A step that changes the store or
\* the clock (expiry, another handler's set) leaves the handler where it is,
\* with its slot and its local variables; every step of the handler inside its
\* block is a step of the job (staging, job, failure report) and each of them
\* stays possible whatever the store holds; the job is called with the url,
\* id, file id and times the handler read, also when the entries have expired
\* by then; and the caption of on_text / on_effect_apply is the title entry
\* if it can still be read and "Audio" if not.
C27_InFlightUnaffected ==
    /\ [][\A h \in Handlers :
            hpc[h] \in InBlock =>
               /\ hpc'[h] \in {hpc[h]} \cup BlockSuccessors(hpc[h])
               /\ (data' # data \/ clock' # clock) =>
                     hpc'[h] = hpc[h] /\ hslot'[h] = hslot[h] /\ hloc'[h] = hloc[h]
               /\ JobInput(hloc'[h], data', clock') = JobInput(hloc[h], data, clock)
               /\ hpc[h] = "job" /\ hpc'[h] # "job" =>
                     hloc'[h].ran = <<[url |-> hloc[h].url, vid |-> hloc[h].vid,
                                       file_id |-> hloc[h].file_id,
                                       times |-> hloc[h].times]>>]_vars
    /\ [][\A h \in Handlers :
            (hpc[h] = "deliver" /\ hpc'[h] # "deliver"
                /\ hkind[h] \in {"on_text", "on_effect_apply"}) =>
               hloc'[h].caption = IF GetValue(data, "title", clock) = None THEN "Audio"
                                  ELSE GetValue(data, "title", clock)]_vars
    /\ [](\A h \in Handlers :
            /\ hpc[h] = "staging" =>
                  ENABLED (StagingOk(h) /\ UNCHANGED <<cacheVars, threadVars, dlVars, toolVars, jobVars>>)
            /\ hpc[h] = "job" =>
                  ENABLED (JobRuns(h) /\ UNCHANGED <<threadVars, dlVars, toolVars>>)
            /\ hpc[h] = "failing" =>
                  ENABLED (FailReturn(h) /\ UNCHANGED <<cacheVars, threadVars, dlVars, toolVars, jobVars>>)
            /\ hpc[h] \in InBlock /\ hkind[h] \in FetchKinds =>
                  hloc[h].url # None /\ hloc[h].vid # None
            /\ hpc[h] \in InBlock /\ hkind[h] \notin FetchKinds =>
                  hloc[h].file_id # None)

\* on_text is delivering the result of a trim that ran on the file id it had
\* read, while file:{k} and title:{k} have expired in the store
C27_Witness ==
    \E h \in Handlers :
        /\ hpc[h] = "deliver"
        /\ hkind[h] = "on_text"
        /\ Len(hloc[h].ran) = 1
        /\ hloc[h].ran[1].file_id = StateValue("file")
        /\ hloc[h].ran[1].times = TrimTimes
        /\ GetValue(data, "file", clock) = None
        /\ GetValue(data, "title", clock) = None

\* the positions of a fetching handler whose download has been invoked
Downloading == {"job", "failing", "failed", "deliver"}

\* C28: on_download / on_audio invoke the download only if the lookup found
\* nothing or sending the cached file failed.  The lookup step ends the handler
\* (position sent_cached) exactly when a cached file was found and sent, without
\* touching the limiter, and such a handler has made no download call and only
\* returns; otherwise the step takes the handler to the limiter.  A handler
\* whose cached send failed can enter the limiter, makes its download call
\* while holding a slot, and makes one call, not more.
C28_DownloadOnlyOnMiss ==
    /\ [][\A h \in Handlers :
            (hpc[h] = "lookup" /\ hpc'[h] # "lookup") =>
               LET cached == CachedFor(hkind[h], files, hloc[h].vid) IN
               /\ hpc'[h] \in {"sent_cached", "acquire"}
               /\ hpc'[h] = "sent_cached" <=> (cached # NoPath /\ hloc'[h].sent = "ok")
               /\ hpc'[h] = "acquire" <=> (cached = NoPath \/ hloc'[h].sent = "failed")
               /\ hslot'[h] = "none"
               /\ UNCHANGED <<semVars, files>>]_vars
    /\ [][\A h \in Handlers :
            /\ hpc[h] = "sent_cached" => hpc'[h] \in {"sent_cached", "idle"}
            /\ hloc'[h].ran # hloc[h].ran /\ hpc'[h] # "idle" =>
                  /\ hpc[h] = "job" /\ hslot[h] = "held" /\ h \in Holders
                  /\ Len(hloc'[h].ran) = 1]_vars
    /\ [](\A h \in Handlers :
            /\ hpc[h] = "sent_cached" =>
                  hslot[h] = "none" /\ hloc[h].ran = <<>> /\ hloc[h].sent = "ok"
            /\ hpc[h] \in Downloading \cup {"acquire", "waiting"} =>
                  hloc[h].cached = NoPath \/ hloc[h].sent = "failed"
            /\ hpc[h] \in {"failing", "failed", "deliver"} => Len(hloc[h].ran) = 1
            /\ hpc[h] = "acquire" /\ hloc[h].sent = "failed" =>
                  ENABLED (FetchAcquire(h) /\ FetchFrame))

\* a request whose cached file could not be sent has made its one download
\* call and is delivering the result
C28_Witness ==
    \E h \in Handlers :
        /\ hpc[h] = "deliver"
        /\ hloc[h].cached # NoPath
        /\ hloc[h].sent = "failed"
        /\ Len(hloc[h].ran) = 1

(* ------------------ claims about the files under audio_tmp --------------- *)
\* C29: while a transcode job runs (from the end of its staging fetch to the
\* end of its transcode) the file at its staging path is the one this job
\* staged: no other job has written the path since.
C29_StagedInputKept ==
    \A h \in Handlers :
        (hpc[h] = "job" /\ hkind[h] \in StageKinds) =>
            /\ SrcPath(hloc[h].user) \in DOMAIN tmpfs
            /\ tmpfs[SrcPath(hloc[h].user)] = h

\* C30: from the end of a job's transcode to the end of its delivery the file
\* at the job's output path is the one this job produced: no other job has
\* overwritten it.
C30_OwnOutputDelivered ==
    \A h \in Handlers :
        (hpc[h] = "deliver" /\ hkind[h] \in StageKinds) =>
            /\ OutPath(hloc[h].user, hkind[h]) \in DOMAIN tmpfs
            /\ tmpfs[OutPath(hloc[h].user, hkind[h])] = h

(* ----------------- claims about the message handlers -------------------- *)
\* what an audio message's handler has answered or sent holds the action menu
MenuShown(h) == \E i \in DOMAIN hloc[h].out : hloc[h].out[i] = "action_kb"

\* C31: an audio message that takes up a pending state (await_fx, await_trim
\* or await_voice) gets the pending action and nothing else: the action menu
\* is not presented (and file:{k} / title:{k} are not rewritten) once the
\* pending action has been carried out; the menu is shown only when no
\* pending state was taken up.
C31_PendingActionOnly ==
    \A h \in Handlers :
        (hkind[h] = "on_audio_message" /\ hloc[h].act # "none") =>
            hpc[h] # "menu" /\ ~MenuShown(h)

\* the pending states in the order on_audio_message tests them, the action
\* each stands for and the handler that records it
AwaitKeys == <<"await_fx", "await_trim", "await_voice">>
AwaitActs == <<"fx", "trim", "voice">>
AwaitSetters == <<"on_effect", "on_trim", "on_voice">>

\* C32: a pending state is taken up at most once.  The audio message that
\* triggers a pending action clears its await_* entry in the same step, before
\* the job is admitted to the limiter; it takes up at most one of await_fx,
\* await_trim, await_voice, the first that is set in that order, and leaves
\* the other entries as they are.  A cleared entry is set again only by its
\* command handler, so a second audio message, also one arriving while the
\* first job waits or runs and whether or not that job fails, does not
\* trigger the same pending action again.
C32_PendingConsumedOnce ==
    /\ [][\A h \in Handlers :
            (hkind[h] = "on_audio_message" /\ hpc[h] = "reading" /\ hpc'[h] # "reading") =>
                LET pend == {i \in 1..3 : GetValue(data, AwaitKeys[i], clock) # None}
                    cleared == {i \in pend : GetValue(data', AwaitKeys[i], clock') = None}
                IN /\ Cardinality(cleared) <= 1
                   /\ \A i \in cleared :
                         /\ \A j \in pend : i <= j
                         /\ hloc'[h].act = AwaitActs[i]
                   /\ hloc'[h].act # "none" => cleared # {}
                   /\ hpc'[h] = "acquire" => cleared # {}
                   /\ \A i \in pend \ cleared : data'[AwaitKeys[i]] = data[AwaitKeys[i]]]_vars
    /\ [][\A i \in 1..3 :
            (/\ GetValue(data, AwaitKeys[i], clock) = None
             /\ GetValue(data', AwaitKeys[i], clock') # None) =>
                \E h \in Handlers :
                    hkind[h] = AwaitSetters[i] /\ hpc[h] = "reading" /\ hpc'[h] = "asked"]_vars
    /\ [][\A h \in Handlers :
            (hkind[h] = "on_audio_message" /\ hpc[h] # "reading") =>
                hpc'[h] = "idle" \/ hloc'[h].act = hloc[h].act]_vars

\* a second audio message has arrived while the job of the first, which took
\* up await_voice, is running, and the entry is cleared
C32_Witness ==
    \E a, b \in Handlers :
        /\ hkind[a] = "on_audio_message" /\ hloc[a].act = "voice" /\ hpc[a] = "job"
        /\ hkind[b] = "on_audio_message" /\ hpc[b] = "reading"
        /\ "await_voice" \in DOMAIN data
        /\ GetValue(data, "await_voice", clock) = None

\* await_trim_times:{user} is present and unexpired, as get decides it
TrimAsked == GetValue(data, "await_trim_times", clock) # None
TrimAskedNext == GetValue(data', "await_trim_times", clock') # None

\* handler h runs its code up to its first await in this step, for a text
\* message
TextHandled(h) ==
    hpc[h] = "reading" /\ hpc'[h] # "reading" /\ hloc[h].msg.text # <<>>

\* what C33 says of a text message handled by h in this step, when the
\* message is one the statement covers: while await_trim_times is set it is
\* read as a pair of times and never reaches the probing of a link; a
\* malformed pair leaves the entry set; a well-formed pair clears it, before
\* the job is admitted and whether or not file:{k} is still there
TextRule(h, covered) ==
    (TextHandled(h) /\ covered /\ TrimAsked) =>
        /\ hkind[h] = "on_text"
        /\ hpc'[h] \in {"rejected", "expired", "acquire"}
        /\ hloc[h].msg.text # TrimTimes => hpc'[h] = "rejected" /\ data' = data
        /\ hloc[h].msg.text = TrimTimes =>
              /\ hpc'[h] # "rejected"
              /\ ~TrimAskedNext
              /\ hpc'[h] = "expired" <=> GetValue(data, "file", clock) = None

\* the entry is cleared only by a well-formed pair or by expiry, and only the
\* trim button sets it (no outcome of the job does); once it is cleared a
\* text message with a link is probed
EntryRule ==
    /\ (TrimAsked /\ ~TrimAskedNext) =>
            \/ clock' > clock
            \/ \E h \in Handlers :
                  /\ hkind[h] = "on_text" /\ TextHandled(h)
                  /\ hloc[h].msg.text = TrimTimes
    /\ (~TrimAsked /\ TrimAskedNext) =>
            \E h \in Handlers :
                hkind[h] = "on_action" /\ hloc[h].act = "trim" /\ hpc[h] = "reading"
    /\ \A h \in Handlers :
            /\ (TextHandled(h) /\ hkind[h] = "on_text" /\ ~TrimAsked) => hpc'[h] = "link"
            /\ (/\ hkind[h] = "on_text" /\ hpc[h] = "link" /\ hpc'[h] # "link"
                /\ hloc[h].msg.text = <<"https://youtu.be/a">>) =>
                    hpc'[h] = "done" /\ hloc'[h].out = <<"probe">>

\* C33 as stated: while await_trim_times:{user} is present and unexpired,
\* every text message of the user is read as a pair of trim times and never
\* reaches the probing of a link; a malformed pair leaves the state set; it is
\* cleared only by a well-formed pair (before the job runs, whether or not
\* file:{k} is still there and whether or not the job succeeds) or by expiry;
\* after that the next text message with a link is probed.
C33_EveryTextIsTrimTimes ==
    [][(\A h \in Handlers : TextRule(h, TRUE)) /\ EntryRule]_vars

\* C33 as it holds: the same of every text message other than the /start
\* command, which on_start answers (bot.py:156).
C33_TextIsTrimTimes ==
    [][(\A h \in Handlers : TextRule(h, hloc[h].msg.text[1] # "/start")) /\ EntryRule]_vars

\* on_text has cleared await_trim_times for a well-formed pair and stands
\* before the limiter
C33_Witness ==
    \E h \in Handlers :
        /\ hkind[h] = "on_text" /\ hpc[h] = "acquire"
        /\ hloc[h].msg.text = TrimTimes
        /\ "await_trim_times" \in DOMAIN data
        /\ ~TrimAsked

\* the handler registered for a command
CommandHandler(word) ==
    CASE word = "/effect" -> "on_effect"
      [] word = "/trim" -> "on_trim"
      [] OTHER -> "on_voice"

\* C34: a message that is text only and begins with /effect, /trim or /voice
\* (also one sent as a reply to an audio message) is handled by the command's
\* handler on_effect, on_trim or on_voice.
C34_CommandReachesHandler ==
    \A h \in Handlers :
        (/\ hpc[h] # "idle"
         /\ hloc[h].msg.text # <<>>
         /\ hloc[h].msg.text[1] \in {"/effect", "/trim", "/voice"}) =>
            hkind[h] = CommandHandler(hloc[h].msg.text[1])

\* the message is a document that holds a video, by its mime type or by the
\* extension of its file name
VideoDocument(m) ==
    /\ m.media = "document"
    /\ \/ m.mime # <<>> /\ m.mime[1] = "video/"
       \/ m.ext \in {".mp4", ".mov", ".mkv", ".webm"}

\* C35: a video sent as a document reaches on_video_message and gets an
\* extract_audio_mp3 job under the limiter, as a native video does: its
\* handler is on_video_message, and when the handler's first code has run the
\* message stands before the limiter, inside the block, or past it.
C35_VideoDocumentExtracted ==
    \A h \in Handlers :
        (hpc[h] # "idle" /\ VideoDocument(hloc[h].msg)) =>
            /\ hkind[h] = "on_video_message"
            /\ hpc[h] \in {"reading", "acquire", "waiting", "staging", "job", "failing",
                           "failed", "deliver", "done"}
====
